---- MODULE Spec2Model ----
(***************************************************************************)
(* Model of the conversational tutor backend (src/backend):                *)
(*   - SessionManager   (session_manager.py): the in-memory session store  *)
(*   - GeminiAI.chat    (gemini_ai.py):       the primary provider adapter *)
(*   - RAGPipeline      (rag_pipeline.py):    the provider cascade         *)
(*   - chat_endpoint / query_endpoint / clear_session / list_sessions      *)
(*                      (main.py):            the request handlers         *)
(*   - EmotionClassifier (emotion_classifier.py): the label of a response  *)
(*   - AlternativeAI    (alternative_models.py): the alternative models    *)
(*                                                                         *)
(* The specifications share the state:                                     *)
(*   Spec      the server: the HTTP handlers, the cascade and the clock    *)
(*   LiveSpec  Spec with the handler's steps weakly fair                   *)
(*   StoreSpec the SessionManager object under arbitrary method calls and  *)
(*             a clock                                                     *)
(*   CapSpec   the SessionManager object while clients send long runs of   *)
(*             numbered messages (the 20-exchange cap is reached)          *)
(*   ConcSpec  the SessionManager object when a batch of appends to one    *)
(*             session is scheduled at once and run in any order           *)
(*   ClassifySpec  EmotionClassifier.classify_emotion (emotion_            *)
(*             classifier.py) called on a response and a query             *)
(*   RepeatSpec  one EmotionClassifier object called several times         *)
(*   FallbackSpec  RAGPipeline._get_fallback_response called on a query    *)
(*   AlternativeSpec  AlternativeAI.chat (alternative_models.py) called on *)
(*             a message and a model preference, with the answers of the   *)
(*             two HTTP services                                           *)
(*                                                                         *)
(* Scheduling.  Every handler of main.py is an `async def` run by one      *)
(* event loop.  SessionManager's methods are plain `def`s, and no provider *)
(* call in gemini_ai.py or rag_pipeline.py is awaited on anything that     *)
(* suspends (generate_content, qa_chain(...) and llm.invoke are blocking   *)
(* calls), so a handler that has started holds the loop until it returns   *)
(* and no two handlers overlap: `pc` and `rq` are the position and the     *)
(* local variables of the one handler that runs (or has last run).  Time   *)
(* (`now`) passes between requests and while a handler is stuck in a       *)
(* provider call.                                                          *)
(***************************************************************************)
EXTENDS Integers, Sequences, FiniteSets, TLC

VARIABLES
    now,          \* datetime.now(), in hours
    sessions,     \* SessionManager.sessions: session id -> session record
    lastOp,       \* the last SessionManager method called directly, and what it returned
    sent,         \* ghost: appends made to each id since its session was (re)created
    gemini_model, \* GeminiAI.model is not None (an API key was configured)
    vectorstore,  \* RAGPipeline.vectorstore is not None
    pc,           \* the running handler's position (idle, done: none runs)
    rq,           \* the running handler's local variables, kept once it is done
    served,       \* requests begun so far
    calls,        \* append calls scheduled on the event loop and not yet run
    classified,   \* the call of EmotionClassifier.classify_emotion under study
    fallback_call,    \* the call of RAGPipeline._get_fallback_response under study
    alternative_call  \* the call of AlternativeAI.chat under study

vars == <<now, sessions, lastOp, sent, gemini_model, vectorstore, pc, rq, served, calls, classified, fallback_call, alternative_call>>

(***************************************************************************)
(* Bounds of the model and constants of the program.                       *)
(***************************************************************************)
MaxTicks == 2
MaxAppends == 2
MaxSeqAppends == 22
MaxRequests == 2
MaxConcurrent == 3
MaxFragments == 2
MaxCalls == 3

max_session_duration_hours == 24
MaxHistory == 20
ContextWindow == 5

\* The session ids clients present and uuid4 draws.
SessionIds == {1, 2}
NoSession == 0

(***************************************************************************)
(* Text.  A text is a sequence of fragments (strings); the code's          *)
(* substring tests are modelled fragment by fragment, from tables computed *)
(* on the real strings.  Long literals are abbreviated with [...].         *)
(***************************************************************************)
EmptyText == <<>>

\* None where a str is expected (classify_emotion's arguments are not checked).
NotAString == <<"None">>

\* What clients ask.
Queries == { <<"python">>, <<"hello">> }

\* gemini_ai.py:38, 71, 75: the three degraded texts GeminiAI.chat returns.
GeminiNotConfigured == <<"Gemini AI is not properly configured. Please check your API key.">>
GeminiTrouble == <<"I'm having trouble generating a response right now. [...]">>
GeminiTechDifficulties == <<"I'm experiencing some technical difficulties. Error: [...]">>
\* Real content of the three external providers.
GeminiContent == <<"gemini answer">>
RagContent == <<"retrieved answer">>
OpenAIContent == <<"tutor answer">>

\* rag_pipeline.py:271-367: the canned answers and the generic message.
KbMachineLearning == <<"Machine Learning is a subset of artificial intelligence [...]">>
KbNeuralNetworks == <<"Neural Networks are computational models [...]">>
KbProgramming == <<"Programming is the process of creating instructions [...]">>
KbMathematics == <<"Mathematics is fundamental to understanding AI [...]">>
KbGeneralHelp == <<"I'm here to help you learn about AI [...]">>
GenericMessage == <<"I'm experiencing some technical difficulties connecting to my AI model [...]">>

\* str.lower() of one fragment.
LowerFragment(f) ==
    CASE f = "Previous conversation:"
            -> "previous conversation:"
      [] f = "User:"
            -> "user:"
      [] f = "AI:"
            -> "ai:"
      [] f = "Current question:"
            -> "current question:"
      [] f = "Gemini AI is not properly configured. Please check your API key."
            -> "gemini ai is not properly configured. please check your api key."
      [] f = "I'm having trouble generating a response right now. [...]"
            -> "i'm having trouble generating a response right now. [...]"
      [] f = "I'm experiencing some technical difficulties. Error: [...]"
            -> "i'm experiencing some technical difficulties. error: [...]"
      [] f = "Machine Learning is a subset of artificial intelligence [...]"
            -> "machine learning is a subset of artificial intelligence [...]"
      [] f = "Neural Networks are computational models [...]"
            -> "neural networks are computational models [...]"
      [] f = "Programming is the process of creating instructions [...]"
            -> "programming is the process of creating instructions [...]"
      [] f = "Mathematics is fundamental to understanding AI [...]"
            -> "mathematics is fundamental to understanding ai [...]"
      [] f = "I'm here to help you learn about AI [...]"
            -> "i'm here to help you learn about ai [...]"
      [] f = "I'm experiencing some technical difficulties connecting to my AI model [...]"
            -> "i'm experiencing some technical difficulties connecting to my ai model [...]"
      [] f = "OK."
            -> "ok."
      [] f = "Excellent! That's correct, exactly right."
            -> "excellent! that's correct, exactly right."
      [] f = "Why? How? What? When?"
            -> "why? how? what? when?"
      [] f = "Great, perfect!"
            -> "great, perfect!"
      [] f = "So, therefore:"
            -> "so, therefore:"
      [] f = "Keep going, try again."
            -> "keep going, try again."
      [] f = "Python uses indentation."
            -> "python uses indentation."
      [] f = "Neural Network"
            -> "neural network"
      [] f = "Deep Learning vs ML"
            -> "deep learning vs ml"
      [] f = "Calculus"
            -> "calculus"
      [] f = "HELP"
            -> "help"
      [] f = "Explain"
            -> "explain"
      [] OTHER -> f

\* str.lower() of a text.
Lower(text) == [i \in 1..Len(text) |-> LowerFragment(text[i])]

\* "experiencing some technical difficulties" in <lower-case fragment>
HasTechDifficulties(lf) ==
    lf \in { "i'm experiencing some technical difficulties. error: [...]",
             "i'm experiencing some technical difficulties connecting to my ai model [...]" }

\* "experiencing some technical difficulties" not in response.lower() is the
\* negation of this.
MentionsTechDifficulties(text) ==
    \E i \in 1..Len(text) : HasTechDifficulties(Lower(text)[i])

(***************************************************************************)
(* What the code's tests see of each fragment, computed on the real        *)
(* strings: RawFacts for the tests made on the text as given, LowerFacts   *)
(* for the tests made on its lower-case form.  A fragment that is not      *)
(* listed has none of the properties.  Matches that would span two         *)
(* fragments are not modelled.  length is the fragment's length without    *)
(* surrounding white space, of a blank fragment the number of its blanks.  *)
(***************************************************************************)
NoRawFacts == [length |-> 1, blank |-> FALSE, formula |-> FALSE, question_marks |-> 0]

RawFacts(f) ==
    CASE f = "python"
            -> [length |-> 6, blank |-> FALSE, formula |-> FALSE, question_marks |-> 0]
      [] f = "hello"
            -> [length |-> 5, blank |-> FALSE, formula |-> FALSE, question_marks |-> 0]
      [] f = "Previous conversation:"
            -> [length |-> 22, blank |-> FALSE, formula |-> FALSE, question_marks |-> 0]
      [] f = "User:"
            -> [length |-> 5, blank |-> FALSE, formula |-> FALSE, question_marks |-> 0]
      [] f = "AI:"
            -> [length |-> 3, blank |-> FALSE, formula |-> FALSE, question_marks |-> 0]
      [] f = "Current question:"
            -> [length |-> 17, blank |-> FALSE, formula |-> FALSE, question_marks |-> 0]
      [] f = "gemini answer"
            -> [length |-> 13, blank |-> FALSE, formula |-> FALSE, question_marks |-> 0]
      [] f = "retrieved answer"
            -> [length |-> 16, blank |-> FALSE, formula |-> FALSE, question_marks |-> 0]
      [] f = "tutor answer"
            -> [length |-> 12, blank |-> FALSE, formula |-> FALSE, question_marks |-> 0]
      [] f = "Gemini AI is not properly configured. Please check your API key."
            -> [length |-> 64, blank |-> FALSE, formula |-> FALSE, question_marks |-> 0]
      [] f = "I'm having trouble generating a response right now. [...]"
            -> [length |-> 92, blank |-> FALSE, formula |-> FALSE, question_marks |-> 1]
      [] f = "I'm experiencing some technical difficulties. Error: [...]"
            -> [length |-> 52, blank |-> FALSE, formula |-> FALSE, question_marks |-> 0]
      [] f = "Machine Learning is a subset of artificial intelligence [...]"
            -> [length |-> 633, blank |-> FALSE, formula |-> TRUE, question_marks |-> 1]
      [] f = "Neural Networks are computational models [...]"
            -> [length |-> 592, blank |-> FALSE, formula |-> TRUE, question_marks |-> 0]
      [] f = "Programming is the process of creating instructions [...]"
            -> [length |-> 646, blank |-> FALSE, formula |-> TRUE, question_marks |-> 1]
      [] f = "Mathematics is fundamental to understanding AI [...]"
            -> [length |-> 593, blank |-> FALSE, formula |-> TRUE, question_marks |-> 0]
      [] f = "I'm here to help you learn about AI [...]"
            -> [length |-> 578, blank |-> FALSE, formula |-> TRUE, question_marks |-> 3]
      [] f = "I'm experiencing some technical difficulties connecting to my AI model [...]"
            -> [length |-> 525, blank |-> FALSE, formula |-> TRUE, question_marks |-> 1]
      [] f = " "
            -> [length |-> 1, blank |-> TRUE, formula |-> FALSE, question_marks |-> 0]
      [] f = "OK."
            -> [length |-> 3, blank |-> FALSE, formula |-> FALSE, question_marks |-> 0]
      [] f = "Excellent! That's correct, exactly right."
            -> [length |-> 41, blank |-> FALSE, formula |-> FALSE, question_marks |-> 0]
      [] f = "Why? How? What? When?"
            -> [length |-> 21, blank |-> FALSE, formula |-> FALSE, question_marks |-> 4]
      [] f = "Great, perfect!"
            -> [length |-> 15, blank |-> FALSE, formula |-> FALSE, question_marks |-> 0]
      [] f = "So, therefore:"
            -> [length |-> 14, blank |-> FALSE, formula |-> FALSE, question_marks |-> 0]
      [] f = "x = y + 1"
            -> [length |-> 9, blank |-> FALSE, formula |-> TRUE, question_marks |-> 0]
      [] f = "Keep going, try again."
            -> [length |-> 22, blank |-> FALSE, formula |-> FALSE, question_marks |-> 0]
      [] f = "Python uses indentation."
            -> [length |-> 24, blank |-> FALSE, formula |-> FALSE, question_marks |-> 0]
      [] f = "this is wrong"
            -> [length |-> 13, blank |-> FALSE, formula |-> FALSE, question_marks |-> 0]
      [] f = "help, i am stuck"
            -> [length |-> 16, blank |-> FALSE, formula |-> FALSE, question_marks |-> 0]
      [] f = "Neural Network"
            -> [length |-> 14, blank |-> FALSE, formula |-> FALSE, question_marks |-> 0]
      [] f = "Deep Learning vs ML"
            -> [length |-> 19, blank |-> FALSE, formula |-> FALSE, question_marks |-> 0]
      [] f = "Calculus"
            -> [length |-> 8, blank |-> FALSE, formula |-> FALSE, question_marks |-> 0]
      [] f = "coding and statistics"
            -> [length |-> 21, blank |-> FALSE, formula |-> FALSE, question_marks |-> 0]
      [] f = "HELP"
            -> [length |-> 4, blank |-> FALSE, formula |-> FALSE, question_marks |-> 0]
      [] f = "Explain"
            -> [length |-> 7, blank |-> FALSE, formula |-> FALSE, question_marks |-> 0]
      [] OTHER -> NoRawFacts

Zero5 == <<0, 0, 0, 0, 0>>

NoLowerFacts ==
    [keywords |-> Zero5, patterns |-> Zero5, praise |-> {}, phrases |-> {},
     error |-> FALSE, struggle |-> FALSE, topics |-> {}]

\* keywords and patterns: per emotion, in the order of Emotions.
LowerFacts(lf) ==
    CASE lf = "python"
            -> [keywords |-> <<0, 0, 0, 0, 0>>, patterns |-> <<0, 0, 0, 0, 0>>,
                praise |-> {}, phrases |-> {},
                error |-> FALSE, struggle |-> FALSE,
                topics |-> {"programming"}]
      [] lf = "ai:"
            -> [keywords |-> <<0, 0, 0, 0, 0>>, patterns |-> <<0, 0, 0, 0, 0>>,
                praise |-> {}, phrases |-> {},
                error |-> FALSE, struggle |-> FALSE,
                topics |-> {"machine learning"}]
      [] lf = "gemini ai is not properly configured. please check your api key."
            -> [keywords |-> <<0, 0, 0, 0, 0>>, patterns |-> <<0, 0, 0, 0, 0>>,
                praise |-> {}, phrases |-> {},
                error |-> FALSE, struggle |-> FALSE,
                topics |-> {"machine learning"}]
      [] lf = "i'm having trouble generating a response right now. [...]"
            -> [keywords |-> <<0, 0, 0, 0, 1>>, patterns |-> <<0, 1, 0, 0, 2>>,
                praise |-> {"right"}, phrases |-> {},
                error |-> FALSE, struggle |-> FALSE,
                topics |-> {}]
      [] lf = "i'm experiencing some technical difficulties. error: [...]"
            -> [keywords |-> <<0, 1, 1, 0, 0>>, patterns |-> <<0, 0, 0, 0, 0>>,
                praise |-> {}, phrases |-> {},
                error |-> TRUE, struggle |-> TRUE,
                topics |-> {}]
      [] lf = "machine learning is a subset of artificial intelligence [...]"
            -> [keywords |-> <<0, 0, 0, 7, 1>>, patterns |-> <<0, 1, 3, 0, 2>>,
                praise |-> {}, phrases |-> {},
                error |-> FALSE, struggle |-> FALSE,
                topics |-> {"machine learning"}]
      [] lf = "neural networks are computational models [...]"
            -> [keywords |-> <<0, 1, 0, 1, 0>>, patterns |-> <<0, 0, 1, 0, 0>>,
                praise |-> {}, phrases |-> {},
                error |-> FALSE, struggle |-> FALSE,
                topics |-> {"machine learning", "neural networks"}]
      [] lf = "programming is the process of creating instructions [...]"
            -> [keywords |-> <<1, 0, 5, 0, 2>>, patterns |-> <<0, 0, 3, 0, 3>>,
                praise |-> {"excellent"}, phrases |-> {},
                error |-> FALSE, struggle |-> FALSE,
                topics |-> {"machine learning", "programming", "general help"}]
      [] lf = "mathematics is fundamental to understanding ai [...]"
            -> [keywords |-> <<0, 0, 0, 1, 1>>, patterns |-> <<0, 0, 0, 0, 1>>,
                praise |-> {}, phrases |-> {},
                error |-> FALSE, struggle |-> TRUE,
                topics |-> {"machine learning", "programming", "mathematics", "general help"}]
      [] lf = "i'm here to help you learn about ai [...]"
            -> [keywords |-> <<0, 0, 1, 4, 4>>, patterns |-> <<0, 0, 2, 0, 7>>,
                praise |-> {}, phrases |-> {},
                error |-> FALSE, struggle |-> TRUE,
                topics |-> {"machine learning", "neural networks", "programming", "mathematics", "general help"}]
      [] lf = "i'm experiencing some technical difficulties connecting to my ai model [...]"
            -> [keywords |-> <<0, 1, 2, 5, 1>>, patterns |-> <<0, 2, 2, 0, 2>>,
                praise |-> {"right"}, phrases |-> {},
                error |-> FALSE, struggle |-> TRUE,
                topics |-> {"machine learning", "neural networks", "programming", "mathematics", "general help"}]
      [] lf = "excellent! that's correct, exactly right."
            -> [keywords |-> <<1, 0, 0, 0, 0>>, patterns |-> <<0, 0, 0, 0, 0>>,
                praise |-> {"correct", "right", "excellent", "exactly"}, phrases |-> {},
                error |-> FALSE, struggle |-> FALSE,
                topics |-> {}]
      [] lf = "why? how? what? when?"
            -> [keywords |-> <<0, 0, 0, 0, 4>>, patterns |-> <<0, 0, 0, 0, 4>>,
                praise |-> {}, phrases |-> {},
                error |-> FALSE, struggle |-> FALSE,
                topics |-> {"general help"}]
      [] lf = "great, perfect!"
            -> [keywords |-> <<2, 0, 0, 0, 0>>, patterns |-> <<0, 0, 0, 0, 0>>,
                praise |-> {"perfect"}, phrases |-> {},
                error |-> FALSE, struggle |-> FALSE,
                topics |-> {}]
      [] lf = "so, therefore:"
            -> [keywords |-> <<0, 0, 2, 0, 0>>, patterns |-> <<0, 0, 0, 0, 0>>,
                praise |-> {}, phrases |-> {},
                error |-> FALSE, struggle |-> FALSE,
                topics |-> {}]
      [] lf = "keep going, try again."
            -> [keywords |-> <<0, 0, 0, 2, 0>>, patterns |-> <<0, 0, 0, 0, 0>>,
                praise |-> {}, phrases |-> {"keep going", "try again"},
                error |-> FALSE, struggle |-> FALSE,
                topics |-> {"machine learning"}]
      [] lf = "python uses indentation."
            -> [keywords |-> <<0, 0, 0, 0, 0>>, patterns |-> <<0, 0, 0, 0, 0>>,
                praise |-> {}, phrases |-> {},
                error |-> FALSE, struggle |-> FALSE,
                topics |-> {"programming"}]
      [] lf = "this is wrong"
            -> [keywords |-> <<0, 0, 0, 0, 0>>, patterns |-> <<0, 0, 0, 0, 0>>,
                praise |-> {}, phrases |-> {},
                error |-> TRUE, struggle |-> FALSE,
                topics |-> {}]
      [] lf = "help, i am stuck"
            -> [keywords |-> <<0, 0, 0, 0, 0>>, patterns |-> <<0, 0, 0, 0, 0>>,
                praise |-> {}, phrases |-> {},
                error |-> FALSE, struggle |-> TRUE,
                topics |-> {"general help"}]
      [] lf = "neural network"
            -> [keywords |-> <<0, 0, 0, 0, 0>>, patterns |-> <<0, 0, 0, 0, 0>>,
                praise |-> {}, phrases |-> {},
                error |-> FALSE, struggle |-> FALSE,
                topics |-> {"neural networks"}]
      [] lf = "deep learning vs ml"
            -> [keywords |-> <<0, 0, 0, 1, 0>>, patterns |-> <<0, 0, 0, 0, 0>>,
                praise |-> {}, phrases |-> {},
                error |-> FALSE, struggle |-> FALSE,
                topics |-> {"machine learning", "neural networks"}]
      [] lf = "calculus"
            -> [keywords |-> <<0, 0, 0, 0, 0>>, patterns |-> <<0, 0, 0, 0, 0>>,
                praise |-> {}, phrases |-> {},
                error |-> FALSE, struggle |-> FALSE,
                topics |-> {"mathematics"}]
      [] lf = "coding and statistics"
            -> [keywords |-> <<0, 0, 0, 0, 0>>, patterns |-> <<0, 0, 0, 0, 0>>,
                praise |-> {}, phrases |-> {},
                error |-> FALSE, struggle |-> FALSE,
                topics |-> {"programming", "mathematics"}]
      [] lf = "help"
            -> [keywords |-> <<0, 0, 0, 0, 0>>, patterns |-> <<0, 0, 0, 0, 0>>,
                praise |-> {}, phrases |-> {},
                error |-> FALSE, struggle |-> TRUE,
                topics |-> {"general help"}]
      [] lf = "explain"
            -> [keywords |-> <<0, 0, 0, 0, 0>>, patterns |-> <<0, 0, 0, 0, 0>>,
                praise |-> {}, phrases |-> {},
                error |-> FALSE, struggle |-> FALSE,
                topics |-> {"machine learning", "general help"}]
      [] OTHER -> NoLowerFacts

(***************************************************************************)
(* EmotionClassifier (emotion_classifier.py).                              *)
(***************************************************************************)
Emotions == <<"happy", "thinking", "explaining", "encouraging", "questioning">>
default_emotion == "explaining"

RECURSIVE KeywordCount(_, _)
KeywordCount(lower_text, e) ==
    IF lower_text = <<>> THEN 0
    ELSE LowerFacts(Head(lower_text)).keywords[e] + KeywordCount(Tail(lower_text), e)

RECURSIVE PatternCount(_, _)
PatternCount(lower_text, e) ==
    IF lower_text = <<>> THEN 0
    ELSE LowerFacts(Head(lower_text)).patterns[e] + PatternCount(Tail(lower_text), e)

\* str.strip(): the blank fragments at either end of the text go.
RECURSIVE Strip(_)
Strip(text) ==
    IF text = <<>> THEN text
    ELSE IF RawFacts(Head(text)).blank THEN Strip(Tail(text))
    ELSE IF RawFacts(text[Len(text)]).blank
         THEN Strip(SubSeq(text, 1, Len(text) - 1))
    ELSE text

\* len() of a text: its fragments and one separator between two of them.
RECURSIVE JoinedLength(_)
JoinedLength(text) ==
    IF text = <<>> THEN 0
    ELSE IF Len(text) = 1 THEN RawFacts(Head(text)).length
    ELSE RawFacts(Head(text)).length + 1 + JoinedLength(Tail(text))

\* len(text.strip())
StrippedLength(text) == JoinedLength(Strip(text))

RECURSIVE QuestionMarks(_)
QuestionMarks(text) ==
    IF text = <<>> THEN 0
    ELSE RawFacts(Head(text)).question_marks + QuestionMarks(Tail(text))

HasFormula(text) == \E i \in 1..Len(text) : RawFacts(text[i]).formula

PraiseWords(lower_text) == UNION { LowerFacts(lower_text[i]).praise : i \in 1..Len(lower_text) }

EncouragingPhrases(lower_text) ==
    UNION { LowerFacts(lower_text[i]).phrases : i \in 1..Len(lower_text) }

HasErrorIndicator(lower_text) == \E i \in 1..Len(lower_text) : LowerFacts(lower_text[i]).error

HasStruggleIndicator(lower_text) ==
    \E i \in 1..Len(lower_text) : LowerFacts(lower_text[i]).struggle

\* lines 86-100: the scores before the contextual rules.
BaseScores(ai_response) ==
    LET response_lower == Lower(ai_response) IN
    [e \in 1..5 |-> KeywordCount(response_lower, e) + 2 * PatternCount(response_lower, e)]

Bonus(cond, n) == IF cond THEN n ELSE 0

\* The contextual rules with rule 6 counting a response's question marks once.
apply_contextual_rules_one_question(emotion_scores, ai_response, user_query) ==
    LET response_lower == Lower(ai_response)
        query_lower == Lower(user_query)
        happy == Bonus(Cardinality(PraiseWords(response_lower)) >= 2, 4)
        thinking == Bonus(StrippedLength(ai_response) < 20, 2)
        explaining == Bonus(HasFormula(ai_response), 3)
                      + Bonus(StrippedLength(ai_response) > 200, 2)
        encouraging == Bonus(HasErrorIndicator(query_lower), 2)
                       + Bonus(HasStruggleIndicator(query_lower), 2)
                       + 3 * Cardinality(EncouragingPhrases(response_lower))
        questioning == Bonus(QuestionMarks(ai_response) > 0, 2)
        bonus == <<happy, thinking, explaining, encouraging, questioning>>
    IN [e \in 1..5 |-> emotion_scores[e] + bonus[e]]

apply_contextual_rules(emotion_scores, ai_response, user_query) ==
    LET response_lower == Lower(ai_response)
        query_lower == Lower(user_query)
        happy == Bonus(Cardinality(PraiseWords(response_lower)) >= 2, 4)
        thinking == Bonus(StrippedLength(ai_response) < 20, 2)
        explaining == Bonus(HasFormula(ai_response), 3)
                      + Bonus(StrippedLength(ai_response) > 200, 2)
        encouraging == Bonus(HasErrorIndicator(query_lower), 2)
                       + Bonus(HasStruggleIndicator(query_lower), 2)
                       + 3 * Cardinality(EncouragingPhrases(response_lower))
        questioning == 2 * QuestionMarks(ai_response)
        bonus == <<happy, thinking, explaining, encouraging, questioning>>
    IN [e \in 1..5 |-> emotion_scores[e] + bonus[e]]

MaxScore(scores) == CHOOSE m \in {scores[e] : e \in 1..5} : \A e \in 1..5 : scores[e] <= m

\* max() keeping the last key that has the highest score.
BestEmotionLast(scores) ==
    Emotions[CHOOSE e \in 1..5 :
                /\ scores[e] = MaxScore(scores)
                /\ \A d \in (e + 1)..5 : scores[d] < MaxScore(scores)]

\* The first key with a score above 0, whether or not it is the highest.
BestEmotionFirstPositive(scores) ==
    Emotions[CHOOSE e \in 1..5 :
                /\ scores[e] > 0
                /\ \A d \in 1..(e - 1) : scores[d] = 0]

\* max(emotion_scores, key=emotion_scores.get): the first key, in the
\* dictionary's order, that has the highest score.
BestEmotion(scores) ==
    Emotions[CHOOSE e \in 1..5 :
                /\ scores[e] = MaxScore(scores)
                /\ \A d \in 1..(e - 1) : scores[d] < MaxScore(scores)]

\* The scores classify_emotion holds once the contextual rules have run.
ScoresOf(ai_response, user_query) ==
    apply_contextual_rules(BaseScores(ai_response), ai_response, user_query)

\* classify_emotion without its except clause: the exception leaves the call.
classify_emotion_uncaught(ai_response, user_query) ==
    IF ai_response = NotAString \/ user_query = NotAString
    THEN "raised"
    ELSE LET emotion_scores == ScoresOf(ai_response, user_query)
         IN IF MaxScore(emotion_scores) > 0 THEN BestEmotion(emotion_scores)
            ELSE default_emotion

\* classify_emotion asking for more than the short-response bonus before it
\* leaves the default.
classify_emotion_threshold(ai_response, user_query) ==
    IF ai_response = NotAString \/ user_query = NotAString
    THEN default_emotion
    ELSE LET emotion_scores == ScoresOf(ai_response, user_query)
         IN IF MaxScore(emotion_scores) > 2 THEN BestEmotion(emotion_scores)
            ELSE default_emotion

\* classify_emotion on an object that keeps the label of its last call and
\* gives it, in place of the default, to a response without any signal.
classify_emotion_sticky(ai_response, user_query) ==
    IF ai_response = NotAString \/ user_query = NotAString
    THEN default_emotion
    ELSE LET emotion_scores == ScoresOf(ai_response, user_query)
         IN IF MaxScore(emotion_scores) > 0 THEN BestEmotion(emotion_scores)
            ELSE IF classified.earlier # <<>>
                 THEN classified.earlier[Len(classified.earlier)].emotion
            ELSE default_emotion

\* None for an argument: .lower() raises AttributeError inside the try, and
\* the except clause returns the default emotion.
classify_emotion(ai_response, user_query) ==
    IF ai_response = NotAString \/ user_query = NotAString
    THEN default_emotion
    ELSE LET emotion_scores == ScoresOf(ai_response, user_query)
         IN IF MaxScore(emotion_scores) > 0 THEN BestEmotion(emotion_scores)
            ELSE default_emotion

(***************************************************************************)
(* SessionManager (session_manager.py).  The methods are operators from    *)
(* the store and the clock to the new store and the value returned.        *)
(***************************************************************************)
max_session_duration == max_session_duration_hours

NewSession(t) ==
    [created_at |-> t, last_activity |-> t,
     conversation_history |-> <<>>, context |-> <<>>]

Exchange(t, user_message, ai_response) ==
    [timestamp |-> t, user |-> user_message, ai |-> ai_response]

Without(ss, ids) == [s \in (DOMAIN ss) \ ids |-> ss[s]]

With(ss, sid, rec) == [s \in (DOMAIN ss) \cup {sid} |-> IF s = sid THEN rec ELSE ss[s]]

\* lines 162-164: the sessions the sweep removes.
\* The expiry test with >= in place of >: a session is dropped the moment
\* its idle time equals the maximal duration.
expired_sessions_inclusive(ss, t) ==
    {s \in DOMAIN ss : t - ss[s].last_activity >= max_session_duration}

expired_sessions(ss, t) ==
    {s \in DOMAIN ss : t - ss[s].last_activity > max_session_duration}

cleanup_expired_sessions(ss, t) == Without(ss, expired_sessions(ss, t))

\* Faulty truncations the cap properties must tell from history[-20:]:
\* none at all, the oldest 20 kept, one exchange too many evicted.
LastExchangesUncapped(h) == h

LastExchangesOldest(h) ==
    IF Len(h) > MaxHistory THEN SubSeq(h, 1, MaxHistory) ELSE h

LastExchangesShort(h) ==
    IF Len(h) > MaxHistory THEN SubSeq(h, Len(h) - MaxHistory + 2, Len(h)) ELSE h

\* history[-20:]
LastExchanges(h) ==
    IF Len(h) > MaxHistory THEN SubSeq(h, Len(h) - MaxHistory + 1, Len(h)) ELSE h

\* A method's outcome: the store afterwards, the value returned, and whether
\* the call ended in an exception instead of returning.
Outcome(ss, ret, raised) == [sessions |-> ss, ret |-> ret, raised |-> raised]

\* A faulty read: an id the store does not hold gets a session, as on the
\* write path.
get_conversation_history_creating(ss, sid, t) ==
    IF sid \notin DOMAIN ss
    THEN Outcome([s \in (DOMAIN ss) \cup {sid} |->
                     IF s = sid
                     THEN [created_at |-> t, last_activity |-> t,
                           conversation_history |-> <<>>, context |-> <<>>]
                     ELSE ss[s]],
                 <<>>, FALSE)
    ELSE Outcome([ss EXCEPT ![sid].last_activity = t],
                 ss[sid].conversation_history, FALSE)

get_conversation_history(ss, sid, t) ==
    IF sid \notin DOMAIN ss
    THEN Outcome(ss, <<>>, FALSE)
    ELSE LET swept == cleanup_expired_sessions(ss, t) IN
         IF sid \notin DOMAIN swept
         THEN \* line 53: self.sessions[session_id] raises KeyError
              Outcome(swept, <<>>, TRUE)
         ELSE Outcome([swept EXCEPT ![sid].last_activity = t],
                      swept[sid].conversation_history, FALSE)

\* A faulty append: for an id the store does not hold the session is created
\* and the exchange dropped.
add_to_conversation_dropping(ss, sid, user_message, ai_response, t) ==
    [sessions |-> [s \in (DOMAIN ss) \cup {sid} |->
                      IF s # sid
                      THEN ss[s]
                      ELSE IF sid \notin DOMAIN ss
                      THEN [created_at |-> t, last_activity |-> t,
                            conversation_history |-> <<>>, context |-> <<>>]
                      ELSE [ss[s] EXCEPT
                              !.conversation_history =
                                  LastExchanges(Append(@, [timestamp |-> t,
                                                           user |-> user_message,
                                                           ai |-> ai_response])),
                              !.last_activity = t]],
     ret |-> <<>>, raised |-> FALSE]

\* A faulty append: it runs the expiry sweep first, as the reads do, so an
\* append to a session that has expired starts that session afresh.
add_to_conversation_sweeping(ss, sid, user_message, ai_response, t) ==
    LET swept == Without(ss, expired_sessions(ss, t))
        s1 == IF sid \in DOMAIN swept THEN swept ELSE With(swept, sid, NewSession(t))
        h1 == Append(s1[sid].conversation_history,
                     Exchange(t, user_message, ai_response))
    IN Outcome([s1 EXCEPT ![sid].conversation_history = LastExchanges(h1),
                          ![sid].last_activity = t],
               <<>>, FALSE)

add_to_conversation(ss, sid, user_message, ai_response, t) ==
    LET s1 == IF sid \in DOMAIN ss THEN ss ELSE With(ss, sid, NewSession(t))
        h1 == Append(s1[sid].conversation_history,
                     Exchange(t, user_message, ai_response))
    IN Outcome([s1 EXCEPT ![sid].conversation_history = LastExchanges(h1),
                          ![sid].last_activity = t],
               <<>>, FALSE)

\* A clear that also sweeps the expired sessions.
clear_session_sweeping(ss, sid) ==
    IF sid \in DOMAIN ss
    THEN Outcome(Without(ss, {sid} \cup expired_sessions(ss, now)), <<>>, FALSE)
    ELSE Outcome(ss, <<>>, FALSE)

clear_session(ss, sid) ==
    IF sid \in DOMAIN ss
    THEN Outcome(Without(ss, {sid}), <<>>, FALSE)
    ELSE Outcome(ss, <<>>, FALSE)

\* The list is returned in the dictionary's order; the model keeps the set.
list_sessions(ss, t) ==
    LET swept == cleanup_expired_sessions(ss, t) IN
    Outcome(swept,
            { [session_id |-> s,
               created_at |-> swept[s].created_at,
               last_activity |-> swept[s].last_activity,
               message_count |-> Len(swept[s].conversation_history)]
              : s \in DOMAIN swept },
            FALSE)

get_session_context(ss, sid) ==
    IF sid \notin DOMAIN ss
    THEN Outcome(ss, <<>>, FALSE)
    ELSE Outcome(ss, ss[sid].context, FALSE)

\* dict.update: the keys of `context` are set, the others kept.  A context is
\* a sequence of <<key, value>> pairs without repeated keys, in insertion order.
RECURSIVE DictSet(_, _, _)
DictSet(d, k, v) ==
    IF d = <<>> THEN << <<k, v>> >>
    ELSE IF Head(d)[1] = k THEN << <<k, v>> >> \o Tail(d)
    ELSE <<Head(d)>> \o DictSet(Tail(d), k, v)

update_session_context(ss, sid, k, v, t) ==
    IF sid \notin DOMAIN ss
    THEN Outcome(ss, <<>>, FALSE)
    ELSE Outcome([ss EXCEPT ![sid].context = DictSet(@, k, v),
                            ![sid].last_activity = t],
                 <<>>, FALSE)

RECURSIVE TotalMessages(_, _)
TotalMessages(ss, ids) ==
    IF ids = {} THEN 0
    ELSE LET s == CHOOSE x \in ids : TRUE IN
         Len(ss[s].conversation_history) + TotalMessages(ss, ids \ {s})

\* round(total_messages / total_sessions, 2), in hundredths.  The nearest
\* hundredth; a tie needs a session count that is a multiple of 8.
RoundedAverage(total_messages, total_sessions) ==
    (200 * total_messages + total_sessions) \div (2 * total_sessions)

\* Statistics taken without the sweep.
get_session_stats_unswept(ss, t) ==
    LET total_sessions == Cardinality(DOMAIN ss)
        total_messages == TotalMessages(ss, DOMAIN ss)
    IN Outcome(ss,
               [total_sessions |-> total_sessions,
                total_messages |-> total_messages,
                avg_messages_per_session_x100 |->
                    IF total_sessions > 0
                    THEN RoundedAverage(total_messages, total_sessions)
                    ELSE 0],
               FALSE)

get_session_stats(ss, t) ==
    LET swept == cleanup_expired_sessions(ss, t)
        total_sessions == Cardinality(DOMAIN swept)
        total_messages == TotalMessages(swept, DOMAIN swept)
    IN Outcome(swept,
               [total_sessions |-> total_sessions,
                total_messages |-> total_messages,
                avg_messages_per_session_x100 |->
                    IF total_sessions > 0
                    THEN RoundedAverage(total_messages, total_sessions)
                    ELSE 0],
               FALSE)

\* uuid.uuid4(): an id no session of the store has.
create_session(ss, new_id, t) == Outcome(With(ss, new_id, NewSession(t)), new_id, FALSE)

(***************************************************************************)
(* GeminiAI.chat (gemini_ai.py) and RAGPipeline (rag_pipeline.py).         *)
(* What an external call does is the environment's choice: it returns      *)
(* content, returns nothing usable, raises, or never returns.              *)
(***************************************************************************)
\* generate_content: with a model, any outcome; without one the call is not made.
GeminiOutcomes == IF gemini_model THEN {"content", "empty", "raised"} ELSE {"not_configured"}

\* gemini_ai.py:36-75: the text GeminiAI.chat returns; it never raises.
gemini_chat(outcome) ==
    CASE outcome = "not_configured" -> GeminiNotConfigured
      [] outcome = "content" -> GeminiContent
      [] outcome = "empty" -> GeminiTrouble
      [] outcome = "raised" -> GeminiTechDifficulties

\* rag_pipeline.py:201 and 239: the test that lets Gemini's text be the answer.
GeminiAccepted(gemini_response) ==
    /\ gemini_response # EmptyText
    /\ ~MentionsTechDifficulties(gemini_response)

\* qa_chain({"question": query})["answer"] and self.llm.invoke(messages).content
ChainOutcomes == {"content", "empty", "raised"}

RECURSIVE ContextParts(_)
ContextParts(msgs) ==
    IF msgs = <<>> THEN <<>>
    ELSE <<"User:">> \o Head(msgs).user \o <<"AI:">> \o Head(msgs).ai
         \o ContextParts(Tail(msgs))

\* conversation_history[-5:]
LastMessages(h) ==
    IF Len(h) > ContextWindow THEN SubSeq(h, Len(h) - ContextWindow + 1, Len(h)) ELSE h

build_conversation_context(conversation_history) ==
    IF conversation_history = <<>> THEN <<>>
    ELSE <<"Previous conversation:">> \o ContextParts(LastMessages(conversation_history))

\* f"{context}\n\nCurrent question: {query}"
FullQuery(conversation_history, query) ==
    build_conversation_context(conversation_history) \o <<"Current question:">> \o query

\* any(term in query_lower for term in <the topic's terms>)
MentionsTopic(query_lower, topic) ==
    \E i \in 1..Len(query_lower) : topic \in LowerFacts(query_lower[i]).topics

\* The fallback trying its categories from the last to the first.
get_fallback_response_reversed(query) ==
    LET query_lower == Lower(query) IN
    IF MentionsTopic(query_lower, "general help") THEN KbGeneralHelp
    ELSE IF MentionsTopic(query_lower, "mathematics") THEN KbMathematics
    ELSE IF MentionsTopic(query_lower, "programming") THEN KbProgramming
    ELSE IF MentionsTopic(query_lower, "neural networks") THEN KbNeuralNetworks
    ELSE IF MentionsTopic(query_lower, "machine learning") THEN KbMachineLearning
    ELSE GenericMessage

get_fallback_response(query) ==
    LET query_lower == Lower(query) IN
    IF MentionsTopic(query_lower, "machine learning") THEN KbMachineLearning
    ELSE IF MentionsTopic(query_lower, "neural networks") THEN KbNeuralNetworks
    ELSE IF MentionsTopic(query_lower, "programming") THEN KbProgramming
    ELSE IF MentionsTopic(query_lower, "mathematics") THEN KbMathematics
    ELSE IF MentionsTopic(query_lower, "general help") THEN KbGeneralHelp
    ELSE GenericMessage

(***************************************************************************)
(* The clock.  One tick is one maximal session duration, so a session is   *)
(* expired (now - last_activity > duration) two ticks after its last       *)
(* activity and not yet one tick after it.  A handler that returns does so *)
(* within the tick it started in (no handler step waits for a day); time   *)
(* passes between requests and while a handler is stuck in a provider call.*)
(***************************************************************************)
TickHours == max_session_duration_hours

Tick ==
    /\ pc \in {"idle", "done", "blocked"}
    /\ now < MaxTicks * TickHours
    /\ now' = now + TickHours
    /\ UNCHANGED <<sessions, lastOp, sent, gemini_model, vectorstore, pc, rq, served, calls, classified, fallback_call, alternative_call>>

NoResponse == [status |-> "none", text |-> EmptyText, emotion |-> "none", session_id |-> NoSession]

\* A handler's local variables.
NoLocals ==
    [kind |-> "none", query |-> EmptyText, given |-> NoSession, session_id |-> NoSession,
     conversation_history |-> <<>>, cascade_query |-> EmptyText, invoked |-> <<>>,
     response_text |-> EmptyText, listed |-> {}, response |-> NoResponse]

(***************************************************************************)
(* Direct calls of SessionManager's methods (StoreSpec, CapSpec).          *)
(***************************************************************************)
\* known: the store held a session under sid when the method was called.
\* expired: the session under sid was idle for more than the maximal
\* duration when the method was called.
NoOp ==
    [op |-> "none", sid |-> NoSession, known |-> FALSE, expired |-> FALSE,
     ret |-> <<>>, raised |-> FALSE]

\* The ghost count of appends per id: `appended` is the id appended to
\* (NoSession: none); an id without a session counts from 0 again.
SentAfter(ss, appended) ==
    [s \in SessionIds |->
        IF s \notin DOMAIN ss THEN 0
        ELSE IF s = appended THEN sent[s] + 1 ELSE sent[s]]

Called(op, sid, out, appended) ==
    /\ sessions' = out.sessions
    /\ lastOp' = [op |-> op, sid |-> sid, known |-> sid \in DOMAIN sessions,
                  expired |-> sid \in expired_sessions(sessions, now),
                  ret |-> out.ret, raised |-> out.raised]
    /\ sent' = SentAfter(out.sessions, appended)
    /\ UNCHANGED <<now, gemini_model, vectorstore, pc, rq, served, calls, classified, fallback_call, alternative_call>>

CreateSession ==
    \E new_id \in SessionIds \ DOMAIN sessions :
        Called("create_session", new_id, create_session(sessions, new_id, now), NoSession)

GetHistory ==
    \E sid \in SessionIds :
        Called("get_conversation_history", sid,
               get_conversation_history(sessions, sid, now), NoSession)

TotalSent == LET RECURSIVE Sum(_)
                 Sum(ids) == IF ids = {} THEN 0
                             ELSE LET s == CHOOSE x \in ids : TRUE
                                  IN sent[s] + Sum(ids \ {s})
             IN Sum(SessionIds)

\* What direct callers record as the tutor's answer.
Answers == { GeminiContent }

AddToConversation ==
    \E sid \in SessionIds, q \in Queries, a \in Answers :
        /\ TotalSent < MaxAppends
        /\ Called("add_to_conversation", sid,
                  add_to_conversation(sessions, sid, q, a, now), sid)

ClearSession ==
    \E sid \in SessionIds :
        Called("clear_session", sid, clear_session(sessions, sid), NoSession)

ListSessions ==
    Called("list_sessions", NoSession, list_sessions(sessions, now), NoSession)

GetSessionStats ==
    Called("get_session_stats", NoSession, get_session_stats(sessions, now), NoSession)

GetSessionContext ==
    \E sid \in SessionIds :
        Called("get_session_context", sid, get_session_context(sessions, sid), NoSession)

ContextKeys == { "topic" }
ContextValues == { "loops" }

UpdateSessionContext ==
    \E sid \in SessionIds, k \in ContextKeys, v \in ContextValues :
        Called("update_session_context", sid,
               update_session_context(sessions, sid, k, v, now), NoSession)

(***************************************************************************)
(* CapSpec's client: it sends the messages "01", "02", ... to a session,   *)
(* one append per message, and every answer is the same text.              *)
(***************************************************************************)
Digits == <<"0", "1", "2", "3", "4", "5", "6", "7", "8", "9">>

Numbered(k) == << Digits[(k \div 10) + 1], Digits[(k % 10) + 1] >>

AppendNumbered ==
    \E sid \in SessionIds :
        /\ calls.pending = {}
        /\ TotalSent < MaxSeqAppends
        /\ Called("add_to_conversation", sid,
                  add_to_conversation(sessions, sid, Numbered(sent[sid] + 1),
                                      OpenAIContent, now),
                  sid)

(***************************************************************************)
(* AlternativeAI (alternative_models.py).  A model function posts one HTTP *)
(* request; what the service answers is the environment's choice.          *)
(***************************************************************************)
\* __init__ (lines 15-19): the dictionary's keys in insertion order.
available_models == <<"huggingface", "ollama", "local">>

ModelNotAvailable == <<"Model not available">>
ModelTemporarilyUnavailable == <<"Model temporarily unavailable">>
RephraseYourQuestion == <<"I'm here to help! Could you rephrase your question?">>
OllamaNotAvailable == <<"Ollama not available">>
NoResponseGenerated == <<"No response generated">>
LocalModelNotImplemented == <<"Local model not implemented yet">>
GeneratedReply == <<"Hi there">>

\* requests.post(...) raised (no connection, timeout), or returned a
\* response: its status code, what response.json() is (invalid: it raises),
\* whether the key read ('generated_text', 'response') is there, and the
\* text under it.
RequestRaised ==
    [raised |-> TRUE, status_code |-> 0, json |-> "none", key |-> FALSE, text |-> EmptyText]

HttpResponse(status_code, json, key, text) ==
    [raised |-> FALSE, status_code |-> status_code, json |-> json, key |-> key, text |-> text]

HuggingfaceResponses ==
    { RequestRaised,
      HttpResponse(503, "object", FALSE, EmptyText),
      HttpResponse(200, "invalid", FALSE, EmptyText),
      HttpResponse(200, "object", FALSE, EmptyText),
      HttpResponse(200, "empty list", FALSE, EmptyText),
      HttpResponse(200, "list of strings", FALSE, EmptyText),
      HttpResponse(200, "list", FALSE, EmptyText),
      HttpResponse(200, "list", TRUE, GeneratedReply),
      HttpResponse(200, "list", TRUE, <<"Human: hello", "AI:">>),
      HttpResponse(200, "list", TRUE, <<"Human: hello", "AI:">> \o GeneratedReply) }

OllamaResponses ==
    { RequestRaised,
      HttpResponse(500, "object", FALSE, EmptyText),
      HttpResponse(200, "invalid", FALSE, EmptyText),
      HttpResponse(200, "list", FALSE, EmptyText),
      HttpResponse(200, "object", FALSE, EmptyText),
      HttpResponse(200, "object", TRUE, EmptyText),
      HttpResponse(200, "object", TRUE, GeneratedReply) }

\* generated_text.split("AI:")[-1]
AfterLastMarker(generated_text) ==
    LET marks == { i \in 1..Len(generated_text) : generated_text[i] = "AI:" }
        last == CHOOSE i \in marks : \A j \in marks : j <= i
    IN SubSeq(generated_text, last + 1, Len(generated_text))

\* lines 42-73
huggingface_chat(message, response) ==
    IF response.raised THEN ModelNotAvailable
    ELSE IF response.status_code # 200 THEN ModelTemporarilyUnavailable
    ELSE IF response.json = "invalid" THEN ModelNotAvailable
    ELSE IF response.json = "list of strings"
    THEN \* result[0].get raises AttributeError
         ModelNotAvailable
    ELSE IF response.json = "list"
    THEN LET generated_text == IF response.key THEN response.text ELSE EmptyText IN
         IF \E i \in 1..Len(generated_text) : generated_text[i] = "AI:"
         THEN LET ai_response == Strip(AfterLastMarker(generated_text)) IN
              IF ai_response # EmptyText THEN ai_response ELSE RephraseYourQuestion
         ELSE ModelTemporarilyUnavailable
    ELSE ModelTemporarilyUnavailable

\* lines 75-96
ollama_chat(message, response) ==
    IF response.raised THEN ModelNotAvailable
    ELSE IF response.status_code # 200 THEN OllamaNotAvailable
    ELSE IF response.json # "object" THEN ModelNotAvailable
    ELSE IF response.key THEN response.text
    ELSE NoResponseGenerated

\* lines 98-101
local_chat(message) == LocalModelNotImplemented

\* The term lists of lines 108, 132, 163, 191 that have a term occurring in
\* the lower-cased fragment.
AlternativeTopics(lf) ==
    CASE lf = "python" -> {"programming"}
      [] lf = "help" -> {"general help"}
      [] lf = "explain" -> {"machine learning"}
      [] lf = "calculus" -> {"mathematics"}
      [] OTHER -> {}

AlternativeMentions(message_lower, topic) ==
    \E i \in 1..Len(message_lower) : topic \in AlternativeTopics(message_lower[i])

\* lines 103-240
intelligent_fallback(message) ==
    LET message_lower == Lower(message) IN
    IF AlternativeMentions(message_lower, "machine learning")
    THEN <<"**AI & Machine Learning Fundamentals** [...]">>
    ELSE IF AlternativeMentions(message_lower, "programming")
    THEN <<"**Programming Concepts** [...]">>
    ELSE IF AlternativeMentions(message_lower, "mathematics")
    THEN <<"**Mathematics for AI & Programming** [...]">>
    ELSE IF AlternativeMentions(message_lower, "general help")
    THEN <<"**Welcome to Your AI Learning Companion!** [...]">>
    ELSE <<"I'm experiencing some connectivity issues with my advanced AI models [...] I noticed you asked about:">>
         \o message \o <<"[...]">>

\* self.available_models[name](message), with the services' answers.
ModelResult(name, message, responses) ==
    CASE name = "huggingface" -> huggingface_chat(message, responses.huggingface)
      [] name = "ollama" -> ollama_chat(message, responses.ollama)
      [] name = "local" -> local_chat(message)

\* What chat returns, with the model functions it called, in order, and
\* whether the value is that of _intelligent_fallback.
ChatOutcome(result, tried, fallback) ==
    [result |-> result, tried |-> tried, fallback |-> fallback]

IsAvailableModel(model_preference) ==
    \E i \in DOMAIN available_models : available_models[i] = model_preference

\* lines 28-36: the loop over the models, from the i-th on.
RECURSIVE TryModels(_, _, _)
TryModels(i, message, responses) ==
    IF i > Len(available_models)
    THEN ChatOutcome(intelligent_fallback(message), SubSeq(available_models, 1, i - 1), TRUE)
    ELSE LET result == ModelResult(available_models[i], message, responses) IN
         IF result # EmptyText /\ result # ModelNotAvailable
         THEN ChatOutcome(result, SubSeq(available_models, 1, i), FALSE)
         ELSE TryModels(i + 1, message, responses)

\* A faulty chat: the preferred model's "Model not available" is not
\* returned, the other models are tried instead.
alternative_chat_retrying(message, model_preference, responses) ==
    IF /\ IsAvailableModel(model_preference)
       /\ ModelResult(model_preference, message, responses) # ModelNotAvailable
    THEN ChatOutcome(ModelResult(model_preference, message, responses),
                     <<model_preference>>, FALSE)
    ELSE TryModels(1, message, responses)

\* lines 21-40
alternative_chat(message, model_preference, responses) ==
    IF IsAvailableModel(model_preference)
    THEN ChatOutcome(ModelResult(model_preference, message, responses),
                     <<model_preference>>, FALSE)
    ELSE TryModels(1, message, responses)

\* No call of AlternativeAI.chat is under study.
NoAlternative ==
    [message |-> EmptyText, model_preference |-> "huggingface",
     responses |-> [huggingface |-> RequestRaised, ollama |-> RequestRaised],
     returned |-> FALSE, result |-> EmptyText, tried |-> <<>>, fallback |-> FALSE]

\* No call of _get_fallback_response is under study.
NoFallback == [query |-> EmptyText, returned |-> FALSE, text |-> EmptyText]

\* No call of classify_emotion is under study.  emotion_patterns (its keys)
\* and default_emotion are the classifier object's fields; `earlier` lists
\* the calls the object has returned from before.
NoClassification ==
    [ai_response |-> EmptyText, user_query |-> EmptyText, returned |-> FALSE,
     scored |-> FALSE, emotion_scores |-> Zero5, emotion |-> "none",
     emotion_patterns |-> Emotions, default_emotion |-> default_emotion,
     earlier |-> <<>>]

(***************************************************************************)
(* Concurrent appends (ConcSpec).  add_to_conversation is a plain `def`    *)
(* without an await, and its callers are coroutines of one event loop: N   *)
(* concurrent calls are N scheduled tasks that the loop runs in any order, *)
(* each call from its first line to its return.                            *)
(***************************************************************************)
NoCalls == [pending |-> {}, gathered |-> FALSE]

AppendCall(sid, k) == [sid |-> sid, k |-> k]

\* n append calls to one session id are scheduled together (once in a run).
GatherAppends ==
    \E sid \in SessionIds, n \in 2..MaxConcurrent :
        /\ calls.pending = {}
        /\ ~calls.gathered
        /\ TotalSent + n <= MaxSeqAppends
        /\ calls' = [pending |-> { AppendCall(sid, k) : k \in (sent[sid] + 1)..(sent[sid] + n) },
                     gathered |-> TRUE]
        /\ UNCHANGED <<now, sessions, lastOp, sent, gemini_model, vectorstore, pc, rq, served, classified, fallback_call, alternative_call>>

\* The loop runs one of the scheduled calls.
RunAppend ==
    \E c \in calls.pending :
        LET out == add_to_conversation(sessions, c.sid, Numbered(c.k), OpenAIContent, now)
        IN /\ sessions' = out.sessions
           /\ lastOp' = [op |-> "add_to_conversation", sid |-> c.sid,
                         known |-> c.sid \in DOMAIN sessions,
                         expired |-> c.sid \in expired_sessions(sessions, now),
                         ret |-> out.ret, raised |-> out.raised]
           /\ sent' = SentAfter(out.sessions, c.sid)
           /\ calls' = [calls EXCEPT !.pending = @ \ {c}]
           /\ UNCHANGED <<now, gemini_model, vectorstore, pc, rq, served, classified, fallback_call, alternative_call>>

(***************************************************************************)
(* The request handlers (main.py) with the cascade they run                *)
(* (RAGPipeline.chat, .query, ._direct_llm_query).  A handler that has     *)
(* started holds the event loop until it returns.                          *)
(*   pc: idle -> chat_gemini -> rag_query -> direct_gemini -> direct_llm   *)
(*            -> record -> classify -> done,  or blocked in a call that    *)
(*            never returns.                                               *)
(***************************************************************************)
Invocation(provider, outcome) == [provider |-> provider, outcome |-> outcome]

Ok(text, emotion, session_id) ==
    [status |-> "ok", text |-> text, emotion |-> emotion, session_id |-> session_id]

\* raise HTTPException(status_code=500, ...)
Error500 == [status |-> "error", text |-> EmptyText, emotion |-> "none", session_id |-> NoSession]

\* Where the cascade's result goes: chat_endpoint records it, query_endpoint does not.
AfterCascade == IF rq.kind = "chat" THEN "record" ELSE "classify"

\* No handler runs, and another request may be taken.
Idle == pc \in {"idle", "done"} /\ served < MaxRequests

\* main.py:130-139: the session is resolved and its history read.
ChatEndpoint ==
    /\ Idle
    /\ served' = served + 1
    /\ \E query \in Queries, given \in SessionIds \cup {NoSession} :
       \E session_id \in (IF given = NoSession THEN SessionIds \ DOMAIN sessions ELSE {given}) :
          LET created == IF given = NoSession
                         THEN create_session(sessions, session_id, now).sessions
                         ELSE sessions
              read == get_conversation_history(created, session_id, now)
              locals == [NoLocals EXCEPT !.kind = "chat", !.query = query,
                                         !.given = given, !.session_id = session_id]
          IN /\ sessions' = read.sessions
             /\ sent' = SentAfter(read.sessions, NoSession)
             /\ IF read.raised
                THEN \* lines 163-165: the KeyError becomes a 500
                     /\ rq' = [locals EXCEPT !.response = Error500]
                     /\ pc' = "done"
                ELSE /\ rq' = [locals EXCEPT !.conversation_history = read.ret]
                     /\ pc' = "chat_gemini"
    /\ UNCHANGED <<now, lastOp, gemini_model, vectorstore, calls, classified, fallback_call, alternative_call>>

\* query_endpoint sweeping the expired sessions like a read of the store.
QueryEndpointSweeping ==
    /\ Idle
    /\ served' = served + 1
    /\ \E query \in Queries :
          rq' = [NoLocals EXCEPT !.kind = "query", !.query = query,
                                 !.cascade_query = query]
    /\ pc' = "rag_query"
    /\ sessions' = cleanup_expired_sessions(sessions, now)
    /\ sent' = SentAfter(sessions', NoSession)
    /\ UNCHANGED <<now, lastOp, gemini_model, vectorstore, calls, classified, fallback_call, alternative_call>>

\* query_endpoint going to _direct_llm_query without asking the retrieval chain.
QueryEndpointDirect ==
    /\ Idle
    /\ served' = served + 1
    /\ \E query \in Queries :
          rq' = [NoLocals EXCEPT !.kind = "query", !.query = query,
                                 !.cascade_query = query]
    /\ pc' = "direct_gemini"
    /\ UNCHANGED <<now, sessions, lastOp, sent, gemini_model, vectorstore, calls, classified, fallback_call, alternative_call>>

\* main.py:100-104: rag_pipeline.query(request.query)
QueryEndpoint ==
    /\ Idle
    /\ served' = served + 1
    /\ \E query \in Queries :
          rq' = [NoLocals EXCEPT !.kind = "query", !.query = query,
                                 !.cascade_query = query]
    /\ pc' = "rag_query"
    /\ UNCHANGED <<now, sessions, lastOp, sent, gemini_model, vectorstore, calls, classified, fallback_call, alternative_call>>

\* rag_pipeline.py:198-205: Gemini with the conversation history.
GeminiWithHistory ==
    /\ pc = "chat_gemini"
    /\ \E outcome \in GeminiOutcomes :
          LET gemini_response == gemini_chat(outcome)
              called == Append(rq.invoked, Invocation("gemini", outcome))
          IN IF GeminiAccepted(gemini_response)
             THEN /\ rq' = [rq EXCEPT !.invoked = called,
                                      !.response_text = gemini_response]
                  /\ pc' = AfterCascade
             ELSE \* lines 207-216: on to self.query(full_query)
                  /\ rq' = [rq EXCEPT !.invoked = called,
                                      !.cascade_query =
                                          FullQuery(rq.conversation_history, rq.query)]
                  /\ pc' = "rag_query"
    /\ UNCHANGED <<now, sessions, lastOp, sent, gemini_model, vectorstore, served, calls, classified, fallback_call, alternative_call>>

\* rag_pipeline.py:155-185: RAGPipeline.query
RagQuery ==
    /\ pc = "rag_query"
    /\ IF ~vectorstore
       THEN \* lines 156-158: no vector store, straight to _direct_llm_query
            /\ pc' = "direct_gemini"
            /\ rq' = rq
       ELSE \E outcome \in ChainOutcomes :
              LET called == Append(rq.invoked, Invocation("retrieval", outcome)) IN
              IF outcome = "raised"
              THEN \* lines 183-185
                   /\ rq' = [rq EXCEPT !.invoked = called]
                   /\ pc' = "direct_gemini"
              ELSE /\ rq' = [rq EXCEPT !.invoked = called,
                                       !.response_text =
                                           IF outcome = "content" THEN RagContent
                                           ELSE EmptyText]
                   /\ pc' = AfterCascade
    /\ UNCHANGED <<now, sessions, lastOp, sent, gemini_model, vectorstore, served, calls, classified, fallback_call, alternative_call>>

\* rag_pipeline.py:236-243: _direct_llm_query asks Gemini, without history.
DirectGemini ==
    /\ pc = "direct_gemini"
    /\ \E outcome \in GeminiOutcomes :
          LET gemini_response == gemini_chat(outcome)
              called == Append(rq.invoked, Invocation("gemini", outcome))
          IN IF GeminiAccepted(gemini_response)
             THEN /\ rq' = [rq EXCEPT !.invoked = called,
                                      !.response_text = gemini_response]
                  /\ pc' = AfterCascade
             ELSE /\ rq' = [rq EXCEPT !.invoked = called]
                  /\ pc' = "direct_llm"
    /\ UNCHANGED <<now, sessions, lastOp, sent, gemini_model, vectorstore, served, calls, classified, fallback_call, alternative_call>>

\* The static tiers as invocations: the knowledge base, then the generic message.
StaticInvocations(text) ==
    IF text = GenericMessage
    THEN <<Invocation("knowledge_base", "no_match"), Invocation("generic", "content")>>
    ELSE <<Invocation("knowledge_base", "content")>>

\* rag_pipeline.py:245-263: self.llm.invoke, and the static answer when it raises.
DirectLlm ==
    /\ pc = "direct_llm"
    /\ \E outcome \in ChainOutcomes :
          LET called == Append(rq.invoked, Invocation("openai", outcome))
              fallback == get_fallback_response(rq.cascade_query)
          IN IF outcome = "raised"
             THEN rq' = [rq EXCEPT !.invoked = called \o StaticInvocations(fallback),
                                   !.response_text = fallback]
             ELSE rq' = [rq EXCEPT !.invoked = called,
                                   !.response_text =
                                       IF outcome = "content" THEN OpenAIContent
                                       ELSE EmptyText]
    /\ pc' = AfterCascade
    /\ UNCHANGED <<now, sessions, lastOp, sent, gemini_model, vectorstore, served, calls, classified, fallback_call, alternative_call>>

\* An external call that never returns: nothing in gemini_ai.py or
\* rag_pipeline.py bounds the time a provider call may take.
ProviderHangs ==
    /\ \/ pc \in {"chat_gemini", "direct_gemini"} /\ gemini_model
       \/ pc = "rag_query" /\ vectorstore
       \/ pc = "direct_llm"
    /\ pc' = "blocked"
    /\ UNCHANGED <<now, sessions, lastOp, sent, gemini_model, vectorstore, rq, served, calls, classified, fallback_call, alternative_call>>

\* main.py:147-152
RecordExchange ==
    /\ pc = "record"
    /\ LET out == add_to_conversation(sessions, rq.session_id, rq.query,
                                      rq.response_text, now)
       IN /\ sessions' = out.sessions
          /\ sent' = SentAfter(out.sessions, rq.session_id)
    /\ pc' = "classify"
    /\ UNCHANGED <<now, lastOp, gemini_model, vectorstore, rq, served, calls, classified, fallback_call, alternative_call>>

\* main.py:106-112 and 154-161
ClassifyAndReturn ==
    /\ pc = "classify"
    /\ rq' = [rq EXCEPT !.response =
                 Ok(rq.response_text,
                    classify_emotion(rq.response_text, rq.query),
                    rq.session_id)]
    /\ pc' = "done"
    /\ UNCHANGED <<now, sessions, lastOp, sent, gemini_model, vectorstore, served, calls, classified, fallback_call, alternative_call>>

\* main.py:167-179: DELETE /chat/{session_id}
ClearSessionEndpoint ==
    /\ Idle
    /\ served' = served + 1
    /\ \E session_id \in SessionIds :
          LET out == clear_session(sessions, session_id) IN
          /\ sessions' = out.sessions
          /\ sent' = SentAfter(out.sessions, NoSession)
          /\ rq' = [NoLocals EXCEPT !.kind = "clear", !.session_id = session_id,
                                     !.response = Ok(EmptyText, "none", session_id)]
    /\ pc' = "done"
    /\ UNCHANGED <<now, lastOp, gemini_model, vectorstore, calls, classified, fallback_call, alternative_call>>

\* main.py:181-193: GET /sessions
ListSessionsEndpoint ==
    /\ Idle
    /\ served' = served + 1
    /\ LET out == list_sessions(sessions, now) IN
       /\ sessions' = out.sessions
       /\ sent' = SentAfter(out.sessions, NoSession)
       /\ rq' = [NoLocals EXCEPT !.kind = "list", !.listed = out.ret,
                                  !.response = Ok(EmptyText, "none", NoSession)]
    /\ pc' = "done"
    /\ UNCHANGED <<now, lastOp, gemini_model, vectorstore, calls, classified, fallback_call, alternative_call>>

(***************************************************************************)
(* Specifications.                                                         *)
(***************************************************************************)
\* SessionManager() alone: no pipeline is constructed.
StoreInit ==
    /\ now = 0
    /\ sessions = <<>>
    /\ lastOp = NoOp
    /\ sent = [s \in SessionIds |-> 0]
    /\ gemini_model = FALSE
    /\ vectorstore = FALSE
    /\ pc = "idle"
    /\ rq = NoLocals
    /\ served = 0
    /\ calls = NoCalls
    /\ classified = NoClassification
    /\ fallback_call = NoFallback
    /\ alternative_call = NoAlternative

\* The server once started: the pipeline with or without a Gemini key, and
\* with the vector store of initialize() or the None of __init__.
Init ==
    /\ now = 0
    /\ sessions = <<>>
    /\ lastOp = NoOp
    /\ sent = [s \in SessionIds |-> 0]
    /\ gemini_model \in BOOLEAN
    /\ vectorstore \in BOOLEAN
    /\ pc = "idle"
    /\ rq = NoLocals
    /\ served = 0
    /\ calls = NoCalls
    /\ classified = NoClassification
    /\ fallback_call = NoFallback
    /\ alternative_call = NoAlternative

StoreNext ==
    \/ Tick
    \/ CreateSession
    \/ GetHistory
    \/ AddToConversation
    \/ ClearSession
    \/ ListSessions
    \/ GetSessionStats
    \/ GetSessionContext
    \/ UpdateSessionContext

StoreSpec == StoreInit /\ [][StoreNext]_vars

CapNext ==
    \/ CreateSession
    \/ GetHistory
    \/ AppendNumbered
    \/ ClearSession
    \/ ListSessions
    \/ GetSessionStats
    \/ GetSessionContext
    \/ UpdateSessionContext

CapSpec == StoreInit /\ [][CapNext]_vars

\* The session store under scheduled appends: a session is filled by
\* sequential appends, then takes a gathered batch.
ConcNext ==
    \/ CreateSession
    \/ GetHistory
    \/ AppendNumbered
    \/ GatherAppends
    \/ RunAppend

ConcSpec == StoreInit /\ [][ConcNext]_vars

(***************************************************************************)
(* EmotionClassifier.classify_emotion called on its own: the response and  *)
(* the query are drawn when the behaviour starts, the call returns once.   *)
(***************************************************************************)
\* The pieces responses are made of.
ResponseFragments ==
    { " ", "OK.", "Excellent! That's correct, exactly right.",
      "Why? How? What? When?", "Great, perfect!", "So, therefore:",
      "x = y + 1", "Keep going, try again.", "Python uses indentation.",
      "Programming is the process of creating instructions [...]" }

TextsOver(fragments, n) == UNION { [1..k -> fragments] : k \in 0..n }

ClassifierResponses == TextsOver(ResponseFragments, MaxFragments) \cup {NotAString}

ClassifierQueries ==
    { EmptyText, <<"hello">>, <<"this is wrong">>, <<"help, i am stuck">>, NotAString }

\* emotion_classifier.py:69-116.  The scores are those the call holds when
\* it picks the label; a call that raised before scoring holds none.
ClassifyEmotion ==
    /\ ~classified.returned
    /\ LET r == classified.ai_response
           q == classified.user_query
           raised == r = NotAString \/ q = NotAString
       IN classified' = [classified EXCEPT
                            !.returned = TRUE,
                            !.scored = ~raised,
                            !.emotion_scores = IF raised THEN Zero5 ELSE ScoresOf(r, q),
                            !.emotion = classify_emotion(r, q)]
    /\ UNCHANGED <<now, sessions, lastOp, sent, gemini_model, vectorstore, pc, rq, served, calls, fallback_call, alternative_call>>

ClassifyInit ==
    /\ now = 0
    /\ sessions = <<>>
    /\ lastOp = NoOp
    /\ sent = [s \in SessionIds |-> 0]
    /\ gemini_model = FALSE
    /\ vectorstore = FALSE
    /\ pc = "idle"
    /\ rq = NoLocals
    /\ served = 0
    /\ calls = NoCalls
    /\ \E r \in ClassifierResponses, q \in ClassifierQueries :
          classified = [NoClassification EXCEPT !.ai_response = r, !.user_query = q]
    /\ fallback_call = NoFallback
    /\ alternative_call = NoAlternative

ClassifyNext == ClassifyEmotion

ClassifySpec == ClassifyInit /\ [][ClassifyNext]_vars

(***************************************************************************)
(* One EmotionClassifier object called again and again (RepeatSpec): each  *)
(* call draws its response and its query, and the object's earlier calls   *)
(* are remembered with the labels they returned.                           *)
(***************************************************************************)
RepeatedResponses ==
    { EmptyText, <<"OK.">>, <<"Great, perfect!">>, <<"Why? How? What? When?">>,
      <<"Python uses indentation.">>, NotAString }

RepeatedQueries == { EmptyText, <<"this is wrong">> }

\* The next call of classify_emotion on the same object.
NextCall ==
    /\ classified.returned
    /\ Len(classified.earlier) + 1 < MaxCalls
    /\ \E r \in RepeatedResponses, q \in RepeatedQueries :
          classified' =
             [classified EXCEPT
                 !.ai_response = r,
                 !.user_query = q,
                 !.returned = FALSE,
                 !.scored = FALSE,
                 !.emotion_scores = Zero5,
                 !.emotion = "none",
                 !.earlier = Append(@, [ai_response |-> classified.ai_response,
                                        user_query |-> classified.user_query,
                                        emotion |-> classified.emotion])]
    /\ UNCHANGED <<now, sessions, lastOp, sent, gemini_model, vectorstore, pc, rq, served, calls, fallback_call, alternative_call>>

RepeatInit ==
    /\ now = 0
    /\ sessions = <<>>
    /\ lastOp = NoOp
    /\ sent = [s \in SessionIds |-> 0]
    /\ gemini_model = FALSE
    /\ vectorstore = FALSE
    /\ pc = "idle"
    /\ rq = NoLocals
    /\ served = 0
    /\ calls = NoCalls
    /\ \E r \in RepeatedResponses, q \in RepeatedQueries :
          classified = [NoClassification EXCEPT !.ai_response = r, !.user_query = q]
    /\ fallback_call = NoFallback
    /\ alternative_call = NoAlternative

RepeatNext ==
    \/ ClassifyEmotion
    \/ NextCall

RepeatSpec == RepeatInit /\ [][RepeatNext]_vars

(***************************************************************************)
(* RAGPipeline._get_fallback_response called on its own (FallbackSpec):    *)
(* the query is drawn when the behaviour starts, the call returns once.    *)
(***************************************************************************)
\* The pieces queries are made of.
QueryFragments ==
    { "hello", "python", "Neural Network", "Deep Learning vs ML", "Calculus",
      "coding and statistics", "HELP", "Explain" }

FallbackQueries == TextsOver(QueryFragments, MaxFragments)

\* rag_pipeline.py:265-367
GetFallbackResponse ==
    /\ ~fallback_call.returned
    /\ fallback_call' = [fallback_call EXCEPT !.returned = TRUE,
                                              !.text = get_fallback_response(fallback_call.query)]
    /\ UNCHANGED <<now, sessions, lastOp, sent, gemini_model, vectorstore, pc, rq, served, calls, classified, alternative_call>>

FallbackInit ==
    /\ now = 0
    /\ sessions = <<>>
    /\ lastOp = NoOp
    /\ sent = [s \in SessionIds |-> 0]
    /\ gemini_model = FALSE
    /\ vectorstore = FALSE
    /\ pc = "idle"
    /\ rq = NoLocals
    /\ served = 0
    /\ calls = NoCalls
    /\ classified = NoClassification
    /\ \E q \in FallbackQueries : fallback_call = [NoFallback EXCEPT !.query = q]
    /\ alternative_call = NoAlternative

FallbackNext == GetFallbackResponse

FallbackSpec == FallbackInit /\ [][FallbackNext]_vars

(***************************************************************************)
(* AlternativeSpec: AlternativeAI.chat called once on a message with a     *)
(* model preference; the two services answer as they choose.               *)
(***************************************************************************)
MessageFragments == { "hello", "python", "HELP" }

AlternativeMessages == TextsOver(MessageFragments, MaxFragments)

\* The keys of available_models, a name that is none of them, and the
\* empty string.
ModelPreferences == { "huggingface", "ollama", "local", "openai", "" }

\* alternative_models.py:21-40
AlternativeChat ==
    /\ ~alternative_call.returned
    /\ \E hf \in HuggingfaceResponses, ol \in OllamaResponses :
          LET responses == [huggingface |-> hf, ollama |-> ol]
              out == alternative_chat(alternative_call.message,
                                      alternative_call.model_preference, responses)
          IN alternative_call' = [alternative_call EXCEPT !.responses = responses,
                                                          !.returned = TRUE,
                                                          !.result = out.result,
                                                          !.tried = out.tried,
                                                          !.fallback = out.fallback]
    /\ UNCHANGED <<now, sessions, lastOp, sent, gemini_model, vectorstore, pc, rq, served, calls, classified, fallback_call>>

AlternativeInit ==
    /\ now = 0
    /\ sessions = <<>>
    /\ lastOp = NoOp
    /\ sent = [s \in SessionIds |-> 0]
    /\ gemini_model = FALSE
    /\ vectorstore = FALSE
    /\ pc = "idle"
    /\ rq = NoLocals
    /\ served = 0
    /\ calls = NoCalls
    /\ classified = NoClassification
    /\ fallback_call = NoFallback
    /\ \E m \in AlternativeMessages, p \in ModelPreferences :
          alternative_call = [NoAlternative EXCEPT !.message = m, !.model_preference = p]

AlternativeNext == AlternativeChat

AlternativeSpec == AlternativeInit /\ [][AlternativeNext]_vars

Next ==
    \/ Tick
    \/ ChatEndpoint
    \/ QueryEndpoint
    \/ GeminiWithHistory
    \/ RagQuery
    \/ DirectGemini
    \/ DirectLlm
    \/ ProviderHangs
    \/ RecordExchange
    \/ ClassifyAndReturn
    \/ ClearSessionEndpoint
    \/ ListSessionsEndpoint

Spec == Init /\ [][Next]_vars

\* The handler's provider calls return or raise unless the provider hangs;
\* the loop then runs the handler's next step.
LiveSpec ==
    /\ Spec
    /\ WF_vars(GeminiWithHistory)
    /\ WF_vars(RagQuery)
    /\ WF_vars(DirectGemini)
    /\ WF_vars(DirectLlm)
    /\ WF_vars(RecordExchange)
    /\ WF_vars(ClassifyAndReturn)

(***************************************************************************)
(* Properties of the session store.                                        *)
(***************************************************************************)
HistoryOf(sid) == sessions[sid].conversation_history

Min(a, b) == IF a < b THEN a ELSE b

\* C1: in every reachable state of the store every session's history holds
\* at most 20 exchanges.
C1_HistoryNeverExceedsCap ==
    \A sid \in DOMAIN sessions : Len(HistoryOf(sid)) <= MaxHistory

\* More than 20 appends went to one session, whose history is full.
C1_Witness ==
    \E sid \in DOMAIN sessions :
        sent[sid] > MaxHistory /\ Len(HistoryOf(sid)) = MaxHistory

\* C2: after n sequential appends to a fresh session its history is the last
\* min(n, 20) appended exchanges, in the order they were appended.
C2_LastAppendedInOrder ==
    \A sid \in DOMAIN sessions :
        LET n == sent[sid]
            m == Min(n, MaxHistory)
            h == HistoryOf(sid)
        IN /\ Len(h) = m
           /\ \A i \in 1..m : /\ h[i].user = Numbered(n - m + i)
                              /\ h[i].ai = OpenAIContent

\* 22 appends: the two oldest exchanges were evicted, "03" is now the first.
C2_Witness ==
    \E sid \in DOMAIN sessions :
        /\ sent[sid] = MaxHistory + 2
        /\ HistoryOf(sid)[1].user = Numbered(3)
        /\ HistoryOf(sid)[MaxHistory].user = Numbered(MaxHistory + 2)

C10_ConcurrentAppendsKept ==
    \A sid \in DOMAIN sessions :
        LET h == HistoryOf(sid)
            made == { k \in 1..MaxSeqAppends + MaxConcurrent :
                        /\ k <= sent[sid] + Cardinality({c \in calls.pending : c.sid = sid})
                        /\ AppendCall(sid, k) \notin calls.pending }
        IN /\ Len(h) = Min(sent[sid], MaxHistory)
           /\ Cardinality(made) = sent[sid]
           /\ \A i \in 1..Len(h) : \E k \in made : h[i].user = Numbered(k)
           /\ \A i, j \in 1..Len(h) : i # j => h[i].user # h[j].user

\* A gathered batch has run to its end on a full history, two of its calls
\* in the reverse of the order they were scheduled in.
C10_Witness ==
    /\ calls.gathered
    /\ calls.pending = {}
    /\ \E sid \in DOMAIN sessions :
          /\ sent[sid] > MaxHistory
          /\ Len(HistoryOf(sid)) = MaxHistory
          /\ HistoryOf(sid)[MaxHistory].user = Numbered(sent[sid] - 1)
          /\ HistoryOf(sid)[MaxHistory - 1].user = Numbered(sent[sid])

(***************************************************************************)
(* Properties of the request handlers and of the cascade.                  *)
(***************************************************************************)
\* The cascade is being run: RAGPipeline.chat or .query has not returned.
CascadeRunning == pc \in {"chat_gemini", "rag_query", "direct_gemini", "direct_llm"}

\* RAGPipeline.chat or .query has just returned rq.response_text.
CascadeReturned == pc \in {"record", "classify"}

\* The spec's tiers, by the provider an invocation goes to.
Tier(provider) ==
    CASE provider = "gemini" -> 1
      [] provider = "retrieval" -> 2
      [] provider = "openai" -> 3
      [] provider = "knowledge_base" -> 4
      [] provider = "generic" -> 5

ExternalProviders == {"gemini", "retrieval", "openai"}

\* An external provider's invocation that gave no content: an exception, or
\* for Gemini one of the three texts gemini_ai.py returns in place of content.
Failed(inv) ==
    /\ inv.provider \in ExternalProviders
    /\ \/ inv.outcome = "raised"
       \/ inv.provider = "gemini" /\ inv.outcome # "content"

KnowledgeBaseAnswers ==
    {KbMachineLearning, KbNeuralNetworks, KbProgramming, KbMathematics, KbGeneralHelp}

\* C4: a chat request served by initialized components ends with a response
\* of non-empty text, an emotion of the fixed set and a session id, never
\* with an error response (stated here for the requests whose providers
\* returned content or failed, none an empty answer).
C4_ChatAlwaysAnswers ==
    (/\ pc = "done" /\ rq.kind = "chat" /\ vectorstore
     /\ \A i \in DOMAIN rq.invoked :
           rq.invoked[i].provider = "gemini" \/ rq.invoked[i].outcome # "empty") =>
        /\ rq.response.status = "ok"
        /\ rq.response.text # EmptyText
        /\ \E e \in DOMAIN Emotions : rq.response.emotion = Emotions[e]
        /\ rq.response.session_id \in SessionIds

\* C5: when every invocation of an external provider failed, the cascade
\* returns the knowledge base's answer or the generic message.
C5_AllFailedGivesStaticAnswer ==
    (/\ CascadeReturned
     /\ \A i \in DOMAIN rq.invoked :
           rq.invoked[i].provider \in ExternalProviders => Failed(rq.invoked[i]))
    => rq.response_text \in KnowledgeBaseAnswers \cup {GenericMessage}

\* C6: in the chat path the tiers are tried strictly in priority order: an
\* invocation goes to a tier below all the tiers invoked before it, the first
\* is tier 1 and no tier is passed over.
C6_ChatTiersInOrder ==
    (rq.kind = "chat" /\ vectorstore) =>
        \A i \in DOMAIN rq.invoked : Tier(rq.invoked[i].provider) = i

\* C7: within one cascade call no provider is invoked twice.
C7_ProviderInvokedOnce ==
    \A i, j \in DOMAIN rq.invoked :
        i # j => rq.invoked[i].provider # rq.invoked[j].provider

\* C8: the answer of a cascade call is never one of the primary provider's
\* degraded texts (not configured, having trouble, technical difficulties).
C8_NoSentinelAnswer ==
    CascadeReturned =>
        rq.response_text \notin {GeminiNotConfigured, GeminiTrouble, GeminiTechDifficulties}

\* C9: every cascade call eventually returns.
C9_CascadeReturns == CascadeRunning ~> CascadeReturned

(***************************************************************************)
(* Reads and writes of an id the store does not hold.                      *)
(***************************************************************************)
\* C12: get_history on an id the store does not hold returns the empty
\* sequence and leaves the store as it was; a list made next does not show
\* the id.  (The store's steps are the calls and the ticks of the clock: a
\* step that leaves the clock alone is the call lastOp' records.)
C12_ReadOfUnknownIdChangesNothing ==
    [][\A sid \in SessionIds :
          (/\ sid \notin DOMAIN sessions
           /\ now' = now
           /\ lastOp'.op = "get_conversation_history"
           /\ lastOp'.sid = sid)
          => /\ sessions' = sessions
             /\ lastOp'.ret = <<>>
             /\ ~lastOp'.raised
             /\ \A e \in list_sessions(sessions', now').ret : e.session_id # sid]_vars

\* get_history has returned for an id the store did not hold, while the
\* store holds a session with an exchange under the other id.
C12_Witness ==
    /\ lastOp.op = "get_conversation_history"
    /\ ~lastOp.known
    /\ lastOp.ret = <<>>
    /\ lastOp.sid \notin DOMAIN sessions
    /\ \E o \in DOMAIN sessions : Len(HistoryOf(o)) > 0

\* C13: append on an id the store does not hold creates a session under that
\* id, with the appended exchange as its whole history and an empty context,
\* and touches no other session; a list made next shows the id with
\* message_count 1.
C13_AppendToUnknownIdCreates ==
    [][\A sid \in SessionIds :
          (sid \notin DOMAIN sessions /\ sent'[sid] = 1)
          => /\ DOMAIN sessions' = DOMAIN sessions \cup {sid}
             /\ \A o \in DOMAIN sessions : sessions'[o] = sessions[o]
             /\ \E q \in Queries, a \in Answers :
                   sessions'[sid].conversation_history = <<Exchange(now, q, a)>>
             /\ sessions'[sid].context = <<>>
             /\ \E e \in list_sessions(sessions', now').ret :
                   e.session_id = sid /\ e.message_count = 1]_vars

\* append has returned for an id the store did not hold, next to another
\* session.
C13_Witness ==
    /\ lastOp.op = "add_to_conversation"
    /\ ~lastOp.known
    /\ lastOp.sid \in DOMAIN sessions
    /\ Len(HistoryOf(lastOp.sid)) = 1
    /\ sessions[lastOp.sid].context = <<>>
    /\ \E o \in DOMAIN sessions : o # lastOp.sid

(***************************************************************************)
(* The classifier (ClassifySpec).                                          *)
(***************************************************************************)
Labels == { Emotions[e] : e \in DOMAIN Emotions }

\* C14: whatever the response and the query, the call returns one label of
\* happy, thinking, explaining, encouraging, questioning, and an exception
\* raised while scoring (here: None for an argument) gives explaining.
C14_AlwaysOneOfFiveLabels ==
    classified.returned
    => /\ classified.emotion \in Labels
       /\ ~classified.scored => classified.emotion = "explaining"

C14_Witness ==
    /\ classified.returned
    /\ classified.ai_response = NotAString
    /\ ~classified.scored
    /\ classified.emotion = "explaining"

\* C15: a call whose response is empty or made of whitespace only returns
\* explaining.
C15_BlankResponseGivesDefault ==
    (/\ classified.returned
     /\ classified.ai_response # NotAString
     /\ Strip(classified.ai_response) = EmptyText)
    => classified.emotion = "explaining"

\* C16: a call whose response holds at least 2 distinct praise words returns
\* happy, whatever else the response and the query hold.
C16_TwoPraiseWordsGiveHappy ==
    (/\ classified.returned
     /\ classified.ai_response # NotAString
     /\ classified.user_query # NotAString
     /\ Cardinality(PraiseWords(Lower(classified.ai_response))) >= 2)
    => classified.emotion = "happy"

\* The call scored its response, which is under 20 characters once trimmed,
\* and no label has a total above thinking's.
ShortAndThinkingNotBeaten ==
    /\ classified.returned
    /\ classified.scored
    /\ StrippedLength(classified.ai_response) < 20
    /\ \A e \in DOMAIN Emotions :
          classified.emotion_scores[e] <= classified.emotion_scores[2]

\* C17 as stated: a response under 20 characters once trimmed, with no
\* label's total strictly above thinking's, is labelled thinking.
C17_ShortResponseGivesThinking_Original ==
    ShortAndThinkingNotBeaten => classified.emotion = "thinking"

\* C17: a response under 20 characters once trimmed, with no label's total
\* strictly above thinking's and happy's total strictly below it, is
\* labelled thinking.
C17_ShortResponseGivesThinking ==
    (/\ ShortAndThinkingNotBeaten
     /\ classified.emotion_scores[1] < classified.emotion_scores[2])
    => classified.emotion = "thinking"

C17_Witness ==
    /\ ShortAndThinkingNotBeaten
    /\ classified.ai_response # EmptyText
    /\ classified.emotion_scores[1] < classified.emotion_scores[2]
    /\ classified.emotion_scores[3] = classified.emotion_scores[2]
    /\ classified.emotion = "thinking"

\* The labels whose total is the largest of the five.
Leaders(scores) ==
    { e \in DOMAIN Emotions : \A d \in DOMAIN Emotions : scores[d] <= scores[e] }

\* C18: when several labels share the maximum total and it is above 0, the
\* call returns the one declared first in happy, thinking, explaining,
\* encouraging, questioning.
C18_TieGoesToFirstDeclared ==
    (/\ classified.returned
     /\ classified.scored
     /\ Cardinality(Leaders(classified.emotion_scores)) >= 2
     /\ \E e \in DOMAIN Emotions : classified.emotion_scores[e] > 0)
    => \E e \in Leaders(classified.emotion_scores) :
          /\ classified.emotion = Emotions[e]
          /\ \A d \in Leaders(classified.emotion_scores) : e <= d

C18_Witness ==
    /\ classified.returned
    /\ classified.scored
    /\ Leaders(classified.emotion_scores) = {3, 4}
    /\ classified.emotion_scores[3] > 0
    /\ classified.emotion = "explaining"

\* C19: the label returned has the largest total of the five; when that
\* total is 0 the call returns explaining.
C19_ReturnsLabelOfMaximumTotal ==
    (classified.returned /\ classified.scored)
    => /\ \E e \in Leaders(classified.emotion_scores) :
             classified.emotion = Emotions[e]
       /\ (\A e \in DOMAIN Emotions : classified.emotion_scores[e] = 0)
             => classified.emotion = "explaining"

C19_Witness ==
    /\ classified.returned
    /\ classified.scored
    /\ classified.emotion = "questioning"
    /\ \E e \in DOMAIN Emotions :
          /\ classified.emotion_scores[e] > 0
          /\ classified.emotion_scores[e] < classified.emotion_scores[5]

\* A call none of whose totals is above 0.
C19_WitnessNoSignal ==
    /\ classified.returned
    /\ classified.scored
    /\ classified.emotion_scores = Zero5
    /\ classified.emotion = "explaining"

\* The sum of the first n values of a sequence of numbers.
RECURSIVE SumTo(_, _)
SumTo(values, n) == IF n = 0 THEN 0 ELSE values[n] + SumTo(values, n - 1)

\* The reference total of label e for a response and a query: keyword
\* occurrences in the lowercased response, twice the pattern matches, and
\* the label's contextual bonuses.
ReferenceScore(ai_response, user_query, e) ==
    LET lower == Lower(ai_response)
        n == Len(ai_response)
        keywords == SumTo([i \in 1..n |-> LowerFacts(lower[i]).keywords[e]], n)
        patterns == SumTo([i \in 1..n |-> LowerFacts(lower[i]).patterns[e]], n)
        marks == SumTo([i \in 1..n |-> RawFacts(ai_response[i]).question_marks], n)
        trimmed == StrippedLength(ai_response)
        praise == UNION { LowerFacts(lower[i]).praise : i \in 1..n }
        phrases == UNION { LowerFacts(lower[i]).phrases : i \in 1..n }
        query == Lower(user_query)
        error == \E i \in 1..Len(query) : LowerFacts(query[i]).error
        struggle == \E i \in 1..Len(query) : LowerFacts(query[i]).struggle
        formula == \E i \in 1..n : RawFacts(ai_response[i]).formula
        bonus ==
            CASE Emotions[e] = "happy" -> IF Cardinality(praise) >= 2 THEN 4 ELSE 0
              [] Emotions[e] = "thinking" -> IF trimmed < 20 THEN 2 ELSE 0
              [] Emotions[e] = "explaining" ->
                    (IF formula THEN 3 ELSE 0) + (IF trimmed > 200 THEN 2 ELSE 0)
              [] Emotions[e] = "encouraging" ->
                    (IF error THEN 2 ELSE 0) + (IF struggle THEN 2 ELSE 0)
                    + 3 * Cardinality(phrases)
              [] Emotions[e] = "questioning" -> 2 * marks
    IN keywords + 2 * patterns + bonus

\* C20: the total of each label the call selects from is the reference
\* total: keywords + 2 x patterns + the contextual bonuses.
C20_TotalsFollowReference ==
    (classified.returned /\ classified.scored)
    => \A e \in DOMAIN Emotions :
          classified.emotion_scores[e]
             = ReferenceScore(classified.ai_response, classified.user_query, e)

\* A long response with a formula character, a question mark and two praise
\* words, to a query with an error indicator: four labels get a bonus.
C20_Witness ==
    /\ classified.returned
    /\ classified.scored
    /\ StrippedLength(classified.ai_response) > 200
    /\ QuestionMarks(classified.ai_response) > 0
    /\ HasErrorIndicator(Lower(classified.user_query))
    /\ \A e \in {1, 3, 4, 5} :
          classified.emotion_scores[e] > BaseScores(classified.ai_response)[e]
    /\ \A e \in DOMAIN Emotions :
          classified.emotion_scores[e]
             = ReferenceScore(classified.ai_response, classified.user_query, e)

Categories ==
    << [topic |-> "machine learning", answer |-> KbMachineLearning],
       [topic |-> "neural networks", answer |-> KbNeuralNetworks],
       [topic |-> "programming", answer |-> KbProgramming],
       [topic |-> "mathematics", answer |-> KbMathematics],
       [topic |-> "general help", answer |-> KbGeneralHelp] >>

\* The categories one of whose keywords is in the lower-case text.
Matching(text) ==
    { c \in DOMAIN Categories :
         \E i \in 1..Len(text) :
            Categories[c].topic \in LowerFacts(LowerFragment(text[i])).topics }

\* C22: the fallback returns the canned answer of the first category, in
\* the order machine learning, neural networks, programming, mathematics,
\* general help, that has a keyword in the lower-case text, also when later
\* categories match, and the generic message exactly when none matches.
C22_FirstMatchingCategoryWins ==
    fallback_call.returned
    => LET matching == Matching(fallback_call.query) IN
       /\ matching = {} <=> fallback_call.text = GenericMessage
       /\ \A c \in matching :
             (\A d \in matching : c <= d) => fallback_call.text = Categories[c].answer

\* Programming and mathematics both match; the answer is programming's.
C22_Witness ==
    /\ fallback_call.returned
    /\ Matching(fallback_call.query) = {3, 4}
    /\ fallback_call.text = KbProgramming

\* A query in capitals matches on its lower-case form.
C22_WitnessCapitals ==
    /\ fallback_call.returned
    /\ fallback_call.query = <<"HELP">>
    /\ fallback_call.text = KbGeneralHelp

\* No category matches.
C22_WitnessGeneric ==
    /\ fallback_call.returned
    /\ fallback_call.query = <<"hello">>
    /\ fallback_call.text = GenericMessage

(***************************************************************************)
(* The static answer of the chat path, and the steps of the handlers.      *)
(***************************************************************************)
StaticAnswers == KnowledgeBaseAnswers \cup {GenericMessage}

\* C23: the static answer a chat cascade call returns when every external
\* provider failed depends on the query alone: it is the static answer any
\* earlier chat call gave to the same query, whatever the history then was.
\* (The exchanges on record with a static answer are those of such calls.)
C23_StaticAnswerDependsOnQueryOnly ==
    (/\ CascadeReturned
     /\ rq.kind = "chat"
     /\ rq.response_text \in StaticAnswers
     /\ \A i \in DOMAIN rq.invoked :
           rq.invoked[i].provider \in ExternalProviders => Failed(rq.invoked[i]))
    => \A s \in DOMAIN sessions :
          \A i \in 1..Len(sessions[s].conversation_history) :
             LET earlier == sessions[s].conversation_history[i] IN
             (earlier.user = rq.query /\ earlier.ai \in StaticAnswers)
             => earlier.ai = rq.response_text

\* The steps of a chat request, as positions of its handler: the history has
\* been read when the cascade starts, the answer is resolved when the handler
\* is at "record", the exchange is recorded when it is at "classify", and
\* the response is returned with the classification ("done").
CascadePositions == {"chat_gemini", "rag_query", "direct_gemini", "direct_llm"}

ChatStepOrder ==
    (rq'.kind = "chat" /\ pc' # pc)
    => \/ pc \in {"idle", "done"} /\ pc' = "chat_gemini"
       \/ pc \in CascadePositions /\ pc' \in CascadePositions \cup {"record", "blocked"}
       \/ pc = "record" /\ pc' = "classify"
       \/ pc = "classify" /\ pc' = "done"

ChatReturnedAfterAllSteps ==
    (pc = "done" /\ rq.kind = "chat")
    => /\ rq.response.status = "ok"
       /\ rq.response.text = rq.response_text
       /\ rq.response.emotion = classify_emotion(rq.response_text, rq.query)
       /\ rq.given # NoSession => rq.response.session_id = rq.given
       /\ rq.response.session_id \in DOMAIN sessions
       /\ LET h == sessions[rq.response.session_id].conversation_history IN
          /\ h # <<>>
          /\ h[Len(h)].user = rq.query
          /\ h[Len(h)].ai = rq.response.text
          /\ rq.given = NoSession => Len(h) = 1

\* C24: a chat request goes through history read, answer resolved, exchange
\* recorded, emotion classified, response returned, in this order, none
\* skipped or repeated; the response returned names the session the exchange
\* (query, returned text) was appended to, the client's id if it gave one
\* and a new session otherwise.
C24_ChatStepsInOrder == []ChatReturnedAfterAllSteps /\ [][ChatStepOrder]_vars

\* C25: no step of a stateless query request changes the session store: no
\* session is created, removed, or has its history, context or timestamps
\* modified, whatever the cascade returns.
C25_QueryLeavesStoreAlone == [][rq'.kind = "query" => sessions' = sessions]_vars

\* A query request has been answered while the store held a session with an
\* exchange that had expired.
C25_Witness ==
    /\ pc = "done"
    /\ rq.kind = "query"
    /\ rq.response.status = "ok"
    /\ \E s \in DOMAIN sessions :
          /\ s \in expired_sessions(sessions, now)
          /\ Len(sessions[s].conversation_history) > 0

(***************************************************************************)
(* The expiry sweep, the statistics and clear (StoreSpec).  The store's    *)
(* steps are the calls and the ticks of the clock: a step that leaves the  *)
(* clock alone is the call lastOp' records.                                *)
(***************************************************************************)
TTL == max_session_duration

IdleTime(ss, s) == now - ss[s].last_activity

\* C26: after list_sessions or get_session_stats no session idle for more
\* than the maximal duration is left, every session idle for at most that
\* long is still there as it was, and the list holds exactly one entry per
\* session left, with the length of its history as message_count.
C26_ListAndStatsSweep ==
    [][(now' = now /\ lastOp'.op \in {"list_sessions", "get_session_stats"})
       => /\ \A s \in DOMAIN sessions' : IdleTime(sessions', s) <= TTL
          /\ \A s \in DOMAIN sessions :
                IdleTime(sessions, s) <= TTL
                => s \in DOMAIN sessions' /\ sessions'[s] = sessions[s]
          /\ lastOp'.op = "list_sessions"
             => /\ { e.session_id : e \in lastOp'.ret } = DOMAIN sessions'
                /\ Cardinality(lastOp'.ret) = Cardinality(DOMAIN sessions')
                /\ \A e \in lastOp'.ret :
                      /\ e.message_count
                            = Len(sessions'[e.session_id].conversation_history)
                      /\ e.created_at = sessions'[e.session_id].created_at
                      /\ e.last_activity = sessions'[e.session_id].last_activity]_vars

\* list_sessions has returned, two maximal durations after the start, one
\* entry: that of a session with exchanges idle for exactly the maximal
\* duration; the other id has no session.
C26_Witness ==
    /\ lastOp.op = "list_sessions"
    /\ Cardinality(lastOp.ret) = 1
    /\ \E s \in DOMAIN sessions :
          /\ IdleTime(sessions, s) = TTL
          /\ Len(sessions[s].conversation_history) > 0
          /\ \E e \in lastOp.ret : e.session_id = s /\ e.message_count > 0
    /\ \E s \in SessionIds : s \notin DOMAIN sessions /\ sent[s] = 0
    /\ now = 2 * TTL

\* C27: after any get_history call, for an id the store holds or not, no
\* session idle for more than the maximal duration is left in the store.
C27_EveryReadSweeps ==
    [][(now' = now /\ lastOp'.op = "get_conversation_history")
       => \A s \in DOMAIN sessions' : IdleTime(sessions', s) <= TTL]_vars

\* The sum of the history lengths of the sessions `ids` of a store.
RECURSIVE HistoryLengths(_, _)
HistoryLengths(ss, ids) ==
    IF ids = {} THEN 0
    ELSE LET s == CHOOSE x \in ids : TRUE
         IN Len(ss[s].conversation_history) + HistoryLengths(ss, ids \ {s})

\* C28: get_session_stats returns, for the store as swept, the number of
\* sessions left and the sum of their history lengths; on a store without
\* sessions it returns 0, 0 and an average of 0, and does not raise.
C28_StatsCountLiveSessions ==
    [][(now' = now /\ lastOp'.op = "get_session_stats")
       => LET live == { s \in DOMAIN sessions : IdleTime(sessions, s) <= TTL } IN
          /\ ~lastOp'.raised
          /\ DOMAIN sessions' = live
          /\ lastOp'.ret.total_sessions = Cardinality(live)
          /\ lastOp'.ret.total_messages = HistoryLengths(sessions, live)
          /\ live = {}
             => /\ lastOp'.ret.total_sessions = 0
                /\ lastOp'.ret.total_messages = 0
                /\ lastOp'.ret.avg_messages_per_session_x100 = 0]_vars

\* Statistics taken two maximal durations after the start, over one session
\* with exchanges that is kept while the other id has none.
C28_Witness ==
    /\ lastOp.op = "get_session_stats"
    /\ lastOp.ret.total_sessions = 1
    /\ lastOp.ret.total_messages > 0
    /\ now = 2 * TTL
    /\ \E s \in DOMAIN sessions : IdleTime(sessions, s) = TTL

\* Statistics taken of a store all of whose sessions had expired.
C28_WitnessEmpty ==
    /\ lastOp.op = "get_session_stats"
    /\ lastOp.ret.total_sessions = 0
    /\ lastOp.ret.avg_messages_per_session_x100 = 0
    /\ sessions = <<>>
    /\ now = 2 * TTL

\* C29: clear_session removes the session of the id given when the store
\* holds one and changes nothing otherwise; it does not raise, and every
\* other session is left as it was (the expired ones too).
C29_ClearRemovesOnlyThatSession ==
    [][(now' = now /\ lastOp'.op = "clear_session")
       => /\ ~lastOp'.raised
          /\ DOMAIN sessions' = DOMAIN sessions \ {lastOp'.sid}
          /\ \A o \in DOMAIN sessions' : sessions'[o] = sessions[o]
          /\ lastOp'.sid \notin DOMAIN sessions => sessions' = sessions]_vars

\* A session has been cleared while the other id's session, with an exchange
\* and already expired, stays.
C29_Witness ==
    /\ lastOp.op = "clear_session"
    /\ lastOp.known
    /\ lastOp.sid \notin DOMAIN sessions
    /\ \E o \in DOMAIN sessions :
          /\ IdleTime(sessions, o) > TTL
          /\ Len(sessions[o].conversation_history) > 0

\* clear_session has been called for an id the store did not hold.
C29_WitnessAbsent ==
    /\ lastOp.op = "clear_session"
    /\ ~lastOp.known
    /\ ~lastOp.raised
    /\ sessions # <<>>

\* The static tiers.
StaticProviders == {"knowledge_base", "generic"}

\* C30: a query request invokes the retrieval chain first when there is a
\* vector store (a chat request invokes Gemini first); Gemini is invoked only
\* after the retrieval chain raised or when there is no vector store, the
\* second LLM only after Gemini gave no content, and the static fallback only
\* after the second LLM raised.
C30_QueryPathOrder ==
    /\ (rq.kind = "chat" /\ rq.invoked # <<>>) => rq.invoked[1].provider = "gemini"
    /\ rq.kind = "query"
       => \A i \in DOMAIN rq.invoked :
             LET p == rq.invoked[i].provider IN
             /\ i = 1 => p = (IF vectorstore THEN "retrieval" ELSE "gemini")
             /\ p = "retrieval" => i = 1
             /\ p = "gemini"
                => \/ i = 1 /\ ~vectorstore
                   \/ /\ i = 2
                      /\ rq.invoked[1] = Invocation("retrieval", "raised")
             /\ p = "openai"
                => /\ i > 1
                   /\ rq.invoked[i - 1].provider = "gemini"
                   /\ Failed(rq.invoked[i - 1])
             /\ p \in StaticProviders
                => /\ i > 1
                   /\ \/ rq.invoked[i - 1] = Invocation("openai", "raised")
                      \/ rq.invoked[i - 1].provider \in StaticProviders

\* A query request answered by the static fallback on a server with a vector
\* store: the retrieval chain, Gemini and the second LLM were invoked before.
C30_Witness ==
    /\ pc = "done"
    /\ rq.kind = "query"
    /\ vectorstore
    /\ rq.response.status = "ok"
    /\ Len(rq.invoked) >= 4
    /\ rq.invoked[1] = Invocation("retrieval", "raised")
    /\ rq.invoked[2].provider = "gemini"
    /\ rq.invoked[3] = Invocation("openai", "raised")
    /\ rq.invoked[4].provider \in StaticProviders

(***************************************************************************)
(* Appends to sessions that have expired and were not swept (StoreSpec).   *)
(***************************************************************************)
\* C33: append never runs the expiry sweep.  An append to a session idle for
\* longer than the maximal duration and not yet swept keeps that session's
\* history and adds the new exchange to it, sets last_activity to the time
\* of the call and leaves every other session, expired or not, as it was;
\* the sweep run next keeps the session.
C33_AppendRevivesExpiredSession ==
    [][(now' = now /\ lastOp'.op = "add_to_conversation")
       => /\ DOMAIN sessions' = DOMAIN sessions \cup {lastOp'.sid}
          /\ \A o \in DOMAIN sessions \ {lastOp'.sid} : sessions'[o] = sessions[o]
          /\ lastOp'.sid \in expired_sessions(sessions, now)
             => /\ \E q \in Queries, a \in Answers :
                      sessions'[lastOp'.sid].conversation_history
                         = LastExchanges(Append(sessions[lastOp'.sid].conversation_history,
                                                Exchange(now, q, a)))
                /\ sessions'[lastOp'.sid].created_at = sessions[lastOp'.sid].created_at
                /\ sessions'[lastOp'.sid].context = sessions[lastOp'.sid].context
                /\ sessions'[lastOp'.sid].last_activity = now
                /\ lastOp'.sid \in DOMAIN cleanup_expired_sessions(sessions', now')]_vars

\* append has returned for a session that was idle for two maximal durations:
\* the session holds the exchange made at the start and the new one, its
\* idle time is zero and the sweep would keep it, while the other session,
\* as long idle, is still in the store.
C33_Witness ==
    /\ lastOp.op = "add_to_conversation"
    /\ lastOp.known
    /\ lastOp.expired
    /\ lastOp.sid \in DOMAIN sessions
    /\ Len(sessions[lastOp.sid].conversation_history) = 2
    /\ sessions[lastOp.sid].conversation_history[1].timestamp + TTL < now
    /\ sessions[lastOp.sid].conversation_history[2].timestamp = now
    /\ IdleTime(sessions, lastOp.sid) = 0
    /\ lastOp.sid \in DOMAIN cleanup_expired_sessions(sessions, now)
    /\ \E o \in DOMAIN sessions : o # lastOp.sid /\ IdleTime(sessions, o) > TTL

(***************************************************************************)
(* AlternativeAI.chat (AlternativeSpec).                                   *)
(***************************************************************************)
\* The result of the model function `name` on the call under study.
ResultOf(name) ==
    ModelResult(name, alternative_call.message, alternative_call.responses)

Usable(result) == result # EmptyText /\ result # ModelNotAvailable

\* C34: with a preference that names a model, chat calls that model's
\* function alone and returns its result whatever it is, "Model not
\* available" included.  With any other preference it calls huggingface,
\* ollama, local in that order, stops at the first result that is non-empty
\* and is not "Model not available", and returns that result.  In neither
\* case is the value returned that of _intelligent_fallback.
C34_PreferredModelOrFirstUsable ==
    alternative_call.returned
    => /\ ~alternative_call.fallback
       /\ alternative_call.model_preference \in {"huggingface", "ollama", "local"}
          => /\ alternative_call.tried = <<alternative_call.model_preference>>
             /\ alternative_call.result = ResultOf(alternative_call.model_preference)
       /\ alternative_call.model_preference \notin {"huggingface", "ollama", "local"}
          => LET n == Len(alternative_call.tried) IN
             /\ n \in 1..3
             /\ alternative_call.tried = SubSeq(<<"huggingface", "ollama", "local">>, 1, n)
             /\ alternative_call.result = ResultOf(alternative_call.tried[n])
             /\ Usable(alternative_call.result)
             /\ \A i \in 1..(n - 1) : ~Usable(ResultOf(alternative_call.tried[i]))

\* chat has returned "Model not available" for the default preference,
\* huggingface, whose request raised, without calling Ollama, which would
\* have given a reply.
C34_Witness ==
    /\ alternative_call.returned
    /\ alternative_call.model_preference = "huggingface"
    /\ alternative_call.responses.huggingface.raised
    /\ alternative_call.result = ModelNotAvailable
    /\ alternative_call.tried = <<"huggingface">>
    /\ ResultOf("ollama") = GeneratedReply

\* chat has returned, for a preference that names no model, the local
\* model's sentence after huggingface's "Model not available" and Ollama's
\* empty response.
C34_WitnessAllTried ==
    /\ alternative_call.returned
    /\ alternative_call.model_preference = "openai"
    /\ alternative_call.tried = <<"huggingface", "ollama", "local">>
    /\ ResultOf("huggingface") = ModelNotAvailable
    /\ ResultOf("ollama") = EmptyText
    /\ alternative_call.result = LocalModelNotImplemented
    /\ ~alternative_call.fallback

\* chat has returned, for a preference that names no model, huggingface's
\* "Model temporarily unavailable" without calling another model.
C34_WitnessFirstReturned ==
    /\ alternative_call.returned
    /\ alternative_call.model_preference = ""
    /\ alternative_call.tried = <<"huggingface">>
    /\ alternative_call.result = ModelTemporarilyUnavailable

====
